---- MODULE Spec2Model ----
(***************************************************************************)
(* The ingestion pipeline of s3-edgedelta-streamer:                        *)
(*   Scanner -> job queue -> HTTPPool workers -> line buffer -> batcher    *)
(*   -> batch queue -> HTTP sender workers -> sink,                        *)
(* with the watermark (state.Manager) advanced by UpdateProgress.          *)
(***************************************************************************)
EXTENDS Integers, Sequences, FiniteSets, TLC

\* ------------------------------------------------------------------ bounds
\* configuration of the modelled run (config.yaml values, kept small)
DelayWindow == 1
WorkerCount == 1
QueueSize == 2
BufferSize == 1
BatchLines == 2
BatchBytes == 4
HTTPWorkers == 1
\* bounds of the exploration: scan ticks of a run (of the whole pipeline, of
\* the scanner with the watermark) and seconds the clock advances
PipelineScans == 1
WatermarkScans == 2
MaxClockSteps == 1
\* objects per page of a listing (MaxKeys of ListObjectsV2, kept small)
PageSize == 2
\* UpdateProgress calls made on a state manager between two starts
MaxUpdates == 2
\* periodic save ticks of a state manager
MaxSaves == 2
\* I/O errors (write, rename, SET, read) met by a state manager
MaxIOErrors == 1
\* restarts of the process after a crash or an exit
MaxRestarts == 1
\* jobs that fail in a run (fetch, gunzip, read or format errors)
MaxJobErrors == 1
\* the largest header-skip count of a user-defined format
MaxSkipHeaderLines == 2
\* the largest number of user-defined formats in a configuration
MaxFormats == 2
\* tcppool.Pool.size
PoolSize == 2
\* connections the peer accepts in a run, the initial ones included
MaxDials == 3
\* concurrent callers of Pool.Close
Closers == 2

\* --------------------------------------------------------- program constants
\* scanner.go:61  endTime.Add(-1 * time.Minute)
ColdStartLookback == 60
\* scanner.go:157 current.Add(24 * time.Hour): one partition per UTC day
DayLen == 86400

\* ------------------------------------------------------------ the bucket
\* A bucket: its objects in the key order the object store lists them.
\* day: the day=D partition of the key; ts, seq: the <ts>_.._<seq>.gz file
\* name; valid: whether the file name parses under the active format;
\* lines: the lines of the decompressed object, each the sequence of its
\* characters.
Upper0 == DayLen + 30
Now0 == Upper0 + DelayWindow

\* the bucket of the scanner runs: empty objects around the scan window
WatermarkBucket ==
  << [day |-> 0, ts |-> DayLen - 31, seq |-> 1, valid |-> TRUE,  lines |-> << >>],
     [day |-> 1, ts |-> DayLen + 30, seq |-> 1, valid |-> TRUE,  lines |-> << >>],
     [day |-> 1, ts |-> DayLen + 30, seq |-> 2, valid |-> TRUE,  lines |-> << >>],
     [day |-> 1, ts |-> DayLen + 31, seq |-> 1, valid |-> TRUE,  lines |-> << >>],
     [day |-> 1, ts |-> 0,           seq |-> 0, valid |-> FALSE, lines |-> << >>] >>

\* the bucket of the pipeline runs: two objects with lines
PipelineBucket ==
  << [day |-> 1, ts |-> DayLen + 29, seq |-> 1, valid |-> TRUE, lines |-> << <<"a">> >>],
     [day |-> 1, ts |-> DayLen + 30, seq |-> 1, valid |-> TRUE, lines |-> << <<"a">> >>] >>

\* the keys of the zscaler runs, all in the partition of 12 October 2025
ZscalerPartition ==
  << "l", "o", "g", "s", "/", "y", "e", "a", "r", "=", "2", "0", "2", "5", "/",
     "m", "o", "n", "t", "h", "=", "1", "0", "/", "d", "a", "y", "=", "1", "2", "/" >>
\* logs/year=2025/month=10/day=12/1760305292_56442_130_1.gz
ScenarioKey ==
  ZscalerPartition \o << "1", "7", "6", "0", "3", "0", "5", "2", "9", "2", "_",
                         "5", "6", "4", "4", "2", "_", "1", "3", "0", "_", "1",
                         ".", "g", "z" >>
\* logs/year=2025/month=10/day=12/1760305400_56442_130_2.gz
LaterKey ==
  ZscalerPartition \o << "1", "7", "6", "0", "3", "0", "5", "4", "0", "0", "_",
                         "5", "6", "4", "4", "2", "_", "1", "3", "0", "_", "2",
                         ".", "g", "z" >>
\* logs/year=2025/month=10/day=12/notes.txt
OtherKey ==
  ZscalerPartition \o << "n", "o", "t", "e", "s", ".", "t", "x", "t" >>

\* the objects a listing of the zscaler runs is drawn from, in key order
ZscalerObjects ==
  << [day |-> 1760305292 \div DayLen, key |-> ScenarioKey, ts |-> 1760305292,
      seq |-> 1, valid |-> TRUE, lines |-> << >>],
     [day |-> 1760305292 \div DayLen, key |-> LaterKey, ts |-> 1760305400,
      seq |-> 2, valid |-> TRUE, lines |-> << >>],
     [day |-> 1760305292 \div DayLen, key |-> OtherKey, ts |-> 0,
      seq |-> 0, valid |-> FALSE, lines |-> << >>] >>

\* the listings: every selection of these objects
ZscalerBuckets ==
  {SelectSeq(ZscalerObjects, LAMBDA x : \E i \in S : ZscalerObjects[i] = x) :
     S \in SUBSET (1..Len(ZscalerObjects))}

\* now - delay_window of the scenario: now = 1760305500, delay_window = 60 s
ScenarioEnd == 1760305500 - 60
\* the window ends of the zscaler runs: the scenario's, and one whose
\* cold-start window holds the timestamp 1760305292
ZscalerEnds == {ScenarioEnd, ScenarioEnd - 100}

VARIABLE bucket   \* the objects of the bucket, in listing (key) order
VARIABLE logFormat   \* Scanner.logFormat: the configured format
VARIABLE poolKind    \* the worker pool in use: HTTPPool, FilePool or Pool (TCP)
VARIABLE workerCount \* the pool's workerCount
VARIABLE hs          \* the HTTPSender's configuration: endpoints, workers,
                     \* batchLines, batchBytes, metricsClient (set or nil)
VARIABLE formatConfig \* config.FormatConfig of the user-defined format
VARIABLE replies     \* what the sinks may answer to a POST
VARIABLE formatConfigs \* cfg.Formats: the user-defined formats, in the order of the file
VARIABLE registry    \* Registry.formats: name -> format
VARIABLE detected    \* the latest DetectFormat call: its arguments and its result

Objs == 1..Len(bucket)
\* the empty key "" of a fresh watermark
NoKey == 0
Workers == 1..workerCount
Senders == 1..hs.workers
LinesOf(o) == {<<o, i>> : i \in 1..Len(bucket[o].lines)}
LineLen(l) == Len(bucket[l[1]].lines[l[2]])

\* ---------------------------------------------------------------- strings
\* a string is the sequence of its characters
\* strings.TrimSuffix
TrimSuffix(s, suffix) ==
  IF Len(s) >= Len(suffix) /\ SubSeq(s, Len(s) - Len(suffix) + 1, Len(s)) = suffix
  THEN SubSeq(s, 1, Len(s) - Len(suffix))
  ELSE s

\* strings.Split(s, sep)[0] for a one-character sep: s up to its first sep
FirstPart(s, sep) ==
  LET at == {i \in 1..Len(s) : s[i] = sep}
  IN  IF at = {} THEN s
      ELSE SubSeq(s, 1, (CHOOSE i \in at : \A j \in at : i <= j) - 1)

DecimalDigits == <<"0", "1", "2", "3", "4", "5", "6", "7", "8", "9">>
IsDigit(c) == \E d \in 1..10 : DecimalDigits[d] = c
DigitValue(c) == (CHOOSE d \in 1..10 : DecimalDigits[d] = c) - 1

RECURSIVE DecimalValue(_)
DecimalValue(s) ==
  IF s = << >> THEN 0
  ELSE 10 * DecimalValue(SubSeq(s, 1, Len(s) - 1)) + DigitValue(s[Len(s)])

\* strconv.ParseInt(s, 10, 64): an optional sign and at least one digit,
\* nothing else; err for any other string. (The strings of the model have at
\* most ten digits, so the range error of 64 bits does not arise.)
ParseInt(s) ==
  LET signed == s # << >> /\ s[1] \in {"+", "-"}
      digits == IF signed THEN Tail(s) ELSE s
  IN  IF digits # << >> /\ \A i \in 1..Len(digits) : IsDigit(digits[i])
      THEN [err |-> FALSE,
            val |-> IF signed /\ s[1] = "-" THEN 0 - DecimalValue(digits)
                    ELSE DecimalValue(digits)]
      ELSE [err |-> TRUE, val |-> 0]

\* ------------------------------------------------------------ the scanner
\* ZscalerFormat.ParseTimestamp(filename): the number before the first "_"
\* of the argument without its ".gz"
ZscalerParseTimestamp(filename) ==
  ParseInt(FirstPart(TrimSuffix(filename, <<".", "g", "z">>), "_"))

\* the timestamp listFiles gets for an object, -1 for an error (a negative
\* timestamp lies below every scan window, so it is skipped like an error).
\* The configured format is called with the whole key (scanner.go:111).
\* "generic": a user-defined format with timestamp_format "unix" whose regex
\* captures the <ts> of the file name.
ParseTimestamp(o) ==
  IF logFormat = "zscaler"
  THEN LET r == ZscalerParseTimestamp(bucket[o].key)
       IN  IF r.err \/ r.val < 0 THEN -1 ELSE r.val
  ELSE IF bucket[o].valid THEN bucket[o].ts ELSE -1

\* time.Date(Year, Month, Day, ...) of a Unix time in UTC: its day number
DayOf(t) == t \div DayLen

\* a generatePrefixes that starts at the latest day
generatePrefixes_Descending(fromTimestamp, toTimestamp) ==
  LET d1 == DayOf(fromTimestamp)
      d2 == DayOf(toTimestamp)
  IN  [i \in 1..(IF d2 >= d1 THEN d2 - d1 + 1 ELSE 0) |-> d2 - i + 1]

\* generatePrefixes: one prefix per day from the day of fromTimestamp to the
\* day of toTimestamp, ascending
generatePrefixes(fromTimestamp, toTimestamp) ==
  LET d1 == DayOf(fromTimestamp)
      d2 == DayOf(toTimestamp)
  IN  [i \in 1..(IF d2 >= d1 THEN d2 - d1 + 1 ELSE 0) |-> d1 + i - 1]

\* strings.HasPrefix(lastProcessedFile, prefix): the key lies in the partition
HasPrefix(lastProcessedFile, prefix) ==
  lastProcessedFile # NoKey /\ bucket[lastProcessedFile].day = prefix

\* lexicographic order of two keys of one partition: file names of valid keys
\* (equal-width decimal <ts>, then <seq>) sort by ts, then seq; a name that
\* does not start with digits sorts after them
KeyAfter(o, k) ==
  LET a == bucket[o]
      b == bucket[k]
  IN  IF a.valid /\ b.valid
      THEN a.ts > b.ts \/ (a.ts = b.ts /\ a.seq > b.seq)
      ELSE (~a.valid) /\ b.valid

\* the object store's LIST of a prefix, after StartAfter when it is set
ListObjects(prefix, startAfter) ==
  SelectSeq([i \in 1..Len(bucket) |-> i],
            LAMBDA o : /\ bucket[o].day = prefix
                       /\ (startAfter # NoKey => KeyAfter(o, startAfter)))

\* a filter that lacks the upper bound of the window
InRange_NoUpperBound(o, fromTimestamp, endTimestamp) ==
  ParseTimestamp(o) >= 0 /\ ~(ParseTimestamp(o) < fromTimestamp)

\* the timestamp filter of listFiles (scanner.go:117-125)
InRange(o, fromTimestamp, endTimestamp) ==
  /\ ParseTimestamp(o) >= 0
  /\ ~(ParseTimestamp(o) < fromTimestamp \/ ParseTimestamp(o) > endTimestamp)

\* whether listFiles sets StartAfter for a prefix (scanner.go:92)
UseStartAfter(lastProcessedFile, prefix) ==
  lastProcessedFile # NoKey /\ HasPrefix(lastProcessedFile, prefix)

listFiles(prefix, lastProcessedFile, fromTimestamp, endTimestamp) ==
  LET startAfter == IF UseStartAfter(lastProcessedFile, prefix)
                    THEN lastProcessedFile ELSE NoKey
  IN  SelectSeq(ListObjects(prefix, startAfter),
                LAMBDA o : InRange(o, fromTimestamp, endTimestamp))

RECURSIVE ScanPrefixes(_, _, _, _)
ScanPrefixes(prefixes, lastProcessedFile, fromTimestamp, endTimestamp) ==
  IF prefixes = << >> THEN << >>
  ELSE listFiles(Head(prefixes), lastProcessedFile, fromTimestamp, endTimestamp)
       \o ScanPrefixes(Tail(prefixes), lastProcessedFile, fromTimestamp, endTimestamp)

\* Scanner.Scan at wall-clock time nowv
EndTimestamp(nowv) == nowv - DelayWindow
FromTimestamp(fromTimestamp, nowv) ==
  IF fromTimestamp = 0 THEN EndTimestamp(nowv) - ColdStartLookback ELSE fromTimestamp

Scan(fromTimestamp, lastProcessedFile, nowv) ==
  LET endTs  == EndTimestamp(nowv)
      fromTs == FromTimestamp(fromTimestamp, nowv)
  IN  ScanPrefixes(generatePrefixes(fromTs, endTs), lastProcessedFile, fromTs, endTs)

\* the pages the paginator requests for a prefix: one more while the listing
\* is truncated, at least one
PagesOf(prefix, lastProcessedFile) ==
  LET startAfter == IF UseStartAfter(lastProcessedFile, prefix)
                    THEN lastProcessedFile ELSE NoKey
      n == Len(ListObjects(prefix, startAfter))
  IN  IF n = 0 THEN 1 ELSE (n + PageSize - 1) \div PageSize

\* the jobs listFiles has appended after the first `pages` pages of a prefix
listFilesUpTo(prefix, lastProcessedFile, fromTimestamp, endTimestamp, pages) ==
  LET startAfter == IF UseStartAfter(lastProcessedFile, prefix)
                    THEN lastProcessedFile ELSE NoKey
      listing == ListObjects(prefix, startAfter)
      seen == IF pages * PageSize < Len(listing) THEN pages * PageSize ELSE Len(listing)
  IN  SelectSeq(SubSeq(listing, 1, seen),
                LAMBDA o : InRange(o, fromTimestamp, endTimestamp))

\* the page requests of a scan: <<p, g>> is page g of the p-th prefix
PageRequests(fromTimestamp, lastProcessedFile, nowv) ==
  LET prefixes == generatePrefixes(FromTimestamp(fromTimestamp, nowv), EndTimestamp(nowv))
  IN  {r \in (1..Len(prefixes)) \X (1..Len(bucket) + 1) :
         r[2] <= PagesOf(prefixes[r[1]], lastProcessedFile)}

\* the jobs Scan holds in `jobs` and listFiles in its own `jobs` when the
\* request <<p, g>> fails
ScanCollected(fromTimestamp, lastProcessedFile, nowv, p, g) ==
  LET endTs    == EndTimestamp(nowv)
      fromTs   == FromTimestamp(fromTimestamp, nowv)
      prefixes == generatePrefixes(fromTs, endTs)
  IN  ScanPrefixes(SubSeq(prefixes, 1, p - 1), lastProcessedFile, fromTs, endTs)
      \o listFilesUpTo(prefixes[p], lastProcessedFile, fromTs, endTs, g - 1)

\* an error return that hands back the jobs collected so far
JobsOnError_Collected(collected) == collected

\* return nil, fmt.Errorf(...) in listFiles and in Scan
JobsOnError(collected) == << >>

\* Scanner.Scan when the page request <<p, g>> fails
ScanListError(fromTimestamp, lastProcessedFile, nowv, p, g) ==
  [err |-> TRUE,
   jobs |-> JobsOnError(ScanCollected(fromTimestamp, lastProcessedFile, nowv, p, g))]

\* ---------------------------------------------------------- the watermark
ZeroState == [ts |-> 0, key |-> NoKey, files |-> 0, bytes |-> 0]

\* an update that stores the timestamp of the call unconditionally
NewTimestamp_Overwrite(stored, timestamp) == timestamp

\* Manager.UpdateProgress, under m.mu
NewTimestamp(stored, timestamp) == IF timestamp > stored THEN timestamp ELSE stored

\* an update that stores the key only when the timestamp advances
NewLastFile_OnAdvance(st, timestamp, filePath) ==
  IF timestamp > st.ts THEN filePath ELSE st.key

\* m.state.LastProcessedFile = filePath
NewLastFile(st, timestamp, filePath) == filePath

UpdateProgress(st, timestamp, filePath, bytesProcessed) ==
  [ts    |-> NewTimestamp(st.ts, timestamp),
   key   |-> NewLastFile(st, timestamp, filePath),
   files |-> st.files + 1,
   bytes |-> st.bytes + bytesProcessed]

RECURSIVE SumSeq(_)
SumSeq(s) == IF s = << >> THEN 0 ELSE Head(s) + SumSeq(Tail(s))
\* byteCount of processFile: the bytes of the forwarded lines
\* ------------------------------------------------------------ the formats
\* strings.TrimSpace; the white space of the model's lines is the blank and
\* the tab
RECURSIVE TrimSpace(_)
TrimSpace(s) ==
  IF s = << >> THEN s
  ELSE IF Head(s) \in {" ", "\t"} THEN TrimSpace(Tail(s))
  ELSE IF s[Len(s)] \in {" ", "\t"} THEN TrimSpace(SubSeq(s, 1, Len(s) - 1))
  ELSE s

\* json.Unmarshal(line, &jsonTest) == nil for a line that starts with "{" and
\* ends with "}" once trimmed. The lines of the model hold no quote, colon
\* or digit, so the only JSON value they spell is the empty object.
ValidJSON(trimmed) ==
  TrimSpace(SubSeq(trimmed, 2, Len(trimmed) - 1)) = << >>

\* ProcessContent(line, isFirstLine) of the active format: the line, nil
\* for a line that is filtered out, or an error
ProcessContent(line, isFirstLine) ==
  LET trimmed == TrimSpace(line)
      Drop == [err |-> FALSE, nil |-> TRUE]
      Keep == [err |-> FALSE, nil |-> FALSE]
  IN  CASE logFormat = "zscaler" ->
             IF Len(line) = 0 THEN Drop
             ELSE IF /\ trimmed # << >>
                     /\ Head(trimmed) = "{"
                     /\ trimmed[Len(trimmed)] = "}"
                     /\ ~ValidJSON(trimmed)
             THEN [err |-> TRUE, nil |-> TRUE]
             ELSE Keep
        [] logFormat = "cisco_umbrella" ->
             IF isFirstLine THEN Drop
             ELSE IF Len(trimmed) = 0 THEN Drop
             ELSE Keep
        [] OTHER ->
             IF isFirstLine /\ formatConfig.SkipHeaderLines > 0 THEN Drop
             ELSE IF trimmed = << >> THEN Drop
             ELSE Keep

\* GetContentType() of the active format; NewGenericFormat replaces an empty
\* content type by text/plain
GetContentType ==
  CASE logFormat = "zscaler" -> "application/x-ndjson"
    [] logFormat = "cisco_umbrella" -> "text/plain"
    [] OTHER -> IF formatConfig.ContentType = "" THEN "text/plain"
                ELSE formatConfig.ContentType

\* processFile's byteCount: the lengths of the lines ProcessContent returns
RECURSIVE ByteCountFrom(_, _)
ByteCountFrom(lines, i) ==
  IF i > Len(lines) THEN 0
  ELSE (IF ProcessContent(lines[i], i = 1).nil THEN 0 ELSE Len(lines[i]))
         + ByteCountFrom(lines, i + 1)

ByteCount(o) == ByteCountFrom(bucket[o].lines, 1)

\* ------------------------------------------------------------------ state
VARIABLES
  now,          \* wall clock, Unix seconds
  scanBudget,   \* scan ticks left in this run
  state,        \* Manager.state: the watermark
  dirty,        \* Manager.dirty
  jobQueue,     \* HTTPPool.jobQueue
  jobClosed,    \* jobQueue closed (HTTPPool.stopped)
  wpc, wjob, widx,   \* download worker: position, job, next line
  errors,       \* the pool's error counter (hp.errors)
  filesProcessed, \* the pool's counter of jobs processed without error
  completed,    \* jobs processed without error whose state update is pending
  lineChan, lineClosed,         \* HTTPSender.lineChan
  bpc, currentBatch,            \* batcher: position, current batch
  batchChan, batchClosed,       \* HTTPSender.batchChan
  doneClosed,                   \* HTTPSender.doneChan closed
  cancelled,                    \* HTTPSender.ctx cancelled
  spc, sbatch,                  \* sender worker: position, batch in flight
  sreq,                         \* sender worker: the request in flight
  sentLines, sentBatches,       \* HTTPSender.sentLines, sentBatches
  sendCalls,                    \* history: the number of batches the sender workers
                                \* received from batchChan, and for every line the
                                \* number of sendBatch calls it was part of
  sendErrors,                   \* HTTPSender.errors
  metrics,                      \* the error counters of the metrics client
  supPc,        \* supervisor: position in run / shutdown
  panicked,     \* a goroutine panicked (send on a closed channel)
  \* history, for the properties
  acked,        \* objects for which UpdateProgress was applied
  failed,       \* objects whose last finished job failed
  forwarded,    \* lines a worker has put into the line buffer
  posted,       \* lines that reached a sink in a POST
  accepted,     \* lines a sink answered with 2xx
  atShutdown,   \* lines inside the sender when shutdown began
  lastScan,     \* the inputs and the result of the latest scan that returned jobs,
                \* and the number of jobs Submit has accepted in all scans
  lastListError, \* the inputs and the result of the latest scan that failed
  lastCall      \* the arguments of the latest UpdateProgress call

VARIABLES
  backend,      \* the state backend: "file" (Manager) or "redis" (RedisStateManager)
  disk,         \* the files at filePath and filePath.tmp (redis: the value of the key)
  savePc,       \* position of the Save call that holds m.mu
  saveData,     \* Save: the marshalled state
  runPc,        \* the periodicSave goroutine
  stopPc,       \* the caller of Stop
  crashed,      \* the process is gone
  loadErr,      \* construction of the state manager failed
  restarts, saveCount, ioErrors, updates,   \* counters of the bounded runs
  \* history, for the properties
  calls,        \* number of UpdateProgress calls since construction
  callBytes,    \* sum of the byte counts of the UpdateProgress calls since construction
  base,         \* the state the manager was constructed with
  atStop,       \* the in-memory state when Stop was called
  savedState,   \* the in-memory state of the latest write that reached the state path
  lastSaveErr,  \* whether the latest Save call returned an error
  lastLoad      \* the outcome of load in the latest construction

VARIABLES
  pool,         \* tcppool.Pool: size, conns, closed, stopCh, doneCh
  connClosed,   \* the connections whose Close was called
  dialed,       \* number of connections createConnection has made
  held,         \* the connections Get has handed out and Put has not been given
  closePc,      \* the callers of Pool.Close: position
  getPc, getConn, getEntry,   \* the caller of Pool.Get: position, connection
                              \* received, p.closed as read on entry
  putPc, putConn, putEntry,   \* the caller of Pool.Put: position, connection
                              \* in hand, p.closed as read on entry
  hc            \* the healthChecker goroutine: position, i, connection in hand

VARIABLES
  stopClosed,   \* the pool's stopChan (stopCh) is closed
  idlePc,       \* the caller of HTTPPool.WaitForIdle: position
  lastSubmit,   \* the latest Submit of a caller other than the scan loop
  migratePc     \* the caller of RedisStateManager.MigrateFromFile: position

storeVars == <<backend, disk, savePc, saveData, runPc, stopPc, crashed, loadErr,
               restarts, saveCount, ioErrors, updates, calls, callBytes, base,
               atStop, savedState, lastSaveErr, lastLoad>>
poolVars == <<jobQueue, jobClosed, wpc, wjob, widx, errors, filesProcessed, completed>>
senderVars == <<lineChan, lineClosed, bpc, currentBatch, batchChan, batchClosed,
                doneClosed, cancelled, spc, sbatch>>
sinkVars == <<sreq, sentLines, sentBatches, sendErrors, metrics, sendCalls>>
histVars == <<acked, failed, forwarded, posted, accepted, atShutdown, lastScan,
             lastListError, lastCall>>
apiVars == <<stopClosed, idlePc, lastSubmit, migratePc>>
tcpVars == <<pool, connClosed, dialed, held, closePc, getPc, getConn, getEntry,
            putPc, putConn, putEntry, hc>>
envVars == <<bucket, logFormat, poolKind, workerCount, hs, formatConfig, replies,
            formatConfigs, registry, detected, now, tcpVars, apiVars>>
vars == <<envVars, sinkVars, storeVars, scanBudget, state, dirty, poolVars, senderVars, supPc,
          panicked, histVars>>

\* everything but the state manager
pipelineVars == <<envVars, sinkVars, scanBudget, poolVars, senderVars, supPc, panicked, acked,
                  failed, forwarded, posted, accepted, atShutdown, lastScan,
                  lastListError>>

\* ------------------------------------------------------ TCP connection pool
\* NewPool: size connections in the buffered channel conns, stopCh and doneCh
\* open (a connection is its number in the order of creation, 0 is nil)
NewPool(size) ==
  [size |-> size, conns |-> [i \in 1..size |-> i], connsClosed |-> FALSE,
   closed |-> FALSE, stopCh |-> FALSE, doneCh |-> FALSE]

\* isConnAlive: what the one-byte read with a deadline can tell; false for a
\* connection that was closed
isConnAlive(conn) == IF conn \in connClosed THEN {FALSE} ELSE BOOLEAN

\* createConnection: err (0), or a new connection while the peer takes one
createConnection == {0} \cup (IF dialed < MaxDials THEN {dialed + 1} ELSE {})

\* ------------------------------------------------- persistence of the state
\* a path without a file, a file with its content
NoFile == [exists |-> FALSE, data |-> << >>]
FileOf(data) == [exists |-> TRUE, data |-> data]

\* Manager.filePath
FilePath == "state"

\* a temporary path that is the state path itself
TmpPath_InPlace(path) == path

\* Save: tmpPath := m.filePath + ".tmp"
TmpPath(path) == "state.tmp"

\* os.Rename
Rename(d, from, to) ==
  IF from = to THEN d ELSE [d EXCEPT ![to] = d[from], ![from] = NoFile]

\* json.MarshalIndent(m.state) / json.Marshal(m.state): a JSON object with
\* one member per field, under the names of the struct tags, in the order of
\* the struct (last_updated is written and never read by the program)
OpenBrace == <<"{", 0>>
CloseBrace == <<"}", 0>>
Marshal(st) ==
  << OpenBrace,
     <<"last_processed_timestamp", st.ts>>,
     <<"last_processed_file", st.key>>,
     <<"total_files_processed", st.files>>,
     <<"total_bytes_processed", st.bytes>>,
     CloseBrace >>

\* json.Unmarshal checks the whole input before it decodes
WellFormed(data) ==
  /\ Len(data) >= 2
  /\ data[1] = OpenBrace
  /\ data[Len(data)] = CloseBrace
  /\ \A i \in 2..(Len(data) - 1) : data[i][1] \notin {"{", "}"}

\* the value of a member of the object: the last one with the name, the
\* zero value of the struct when there is none
Member(data, name) ==
  LET idx == {i \in 1..Len(data) : data[i][1] = name}
  IN  IF idx = {} THEN 0 ELSE data[CHOOSE i \in idx : \A j \in idx : j <= i][2]

\* json.Unmarshal(data, &m.state)
Unmarshal(data) ==
  IF WellFormed(data)
  THEN [err |-> FALSE,
        st  |-> [ts    |-> Member(data, "last_processed_timestamp"),
                 key   |-> Member(data, "last_processed_file"),
                 files |-> Member(data, "total_files_processed"),
                 bytes |-> Member(data, "total_bytes_processed")]]
  ELSE [err |-> TRUE, st |-> ZeroState]

\* Manager.load / RedisStateManager.load: the read fails, finds nothing, or
\* returns data for Unmarshal
load(file, readErr) ==
  IF readErr THEN [err |-> "io", st |-> ZeroState]
  ELSE IF ~file.exists THEN [err |-> "notExist", st |-> ZeroState]
  ELSE IF Unmarshal(file.data).err THEN [err |-> "unmarshal", st |-> ZeroState]
  ELSE [err |-> "none", st |-> Unmarshal(file.data).st]

\* a constructor that starts fresh on any load error
IsNotExist_AnyError(err) == TRUE

\* os.IsNotExist(err) / err == redis.Nil
IsNotExist(err) == err = "notExist"

\* NewManager / NewRedisStateManager
NewManager(file, readErr) ==
  LET l == load(file, readErr)
  IN  IF l.err = "none" THEN [err |-> FALSE, load |-> l.err, st |-> l.st]
      ELSE IF IsNotExist(l.err) THEN [err |-> FALSE, load |-> l.err, st |-> ZeroState]
      ELSE [err |-> TRUE, load |-> l.err, st |-> ZeroState]

\* what a new process would load from the state path
Persisted == NewManager(disk[FilePath], FALSE).st

\* ------------------------------------------------------------- the sinks
\* strings.Contains
Contains(s, substr) ==
  \E i \in 1..(Len(s) - Len(substr) + 1) : SubSeq(s, i, i + Len(substr) - 1) = substr

\* %d of a status code
RECURSIVE Itoa(_)
Itoa(n) ==
  IF n < 10 THEN <<DecimalDigits[n + 1]>>
  ELSE Itoa(n \div 10) \o <<DecimalDigits[(n % 10) + 1]>>

\* what client.Do returns: a response with its status and body, or status 0
\* and the error of the transport
Reply(status, body, err) == [status |-> status, body |-> body, err |-> err]

\* the answers of the pipeline runs: a 2xx, a 5xx, a transport error (EOF)
Outcomes ==
  {Reply(200, << >>, << >>), Reply(503, << >>, << >>), Reply(0, << >>, <<"E", "O", "F">>)}

\* the configured endpoints of the pipeline runs
Endpoints == <<<<"a">>, <<"b">>>>

\* no request in flight
NoRequest == [endpoint |-> << >>, contentType |-> "", body |-> << >>]

\* a sender that rotates through the endpoints batch by batch
Endpoint_PerBatch(workerID, batches) ==
  hs.endpoints[((workerID + batches) % Len(hs.endpoints)) + 1]

\* endpoint := hs.endpoints[workerID%len(hs.endpoints)], once per sender
Endpoint(workerID, batches) == hs.endpoints[(workerID % Len(hs.endpoints)) + 1]

\* the request body of sendBatch: buf.Write(line), buf.WriteByte('\n') for
\* each line of batch.Lines in turn; a batch holds <<object, line number>>
RECURSIVE Body(_)
Body(batch) ==
  IF batch = << >> THEN << >>
  ELSE bucket[Head(batch)[1]].lines[Head(batch)[2]] \o <<"\n">> \o Body(Tail(batch))

\* sendBatch builds the request: POST to the endpoint with the body of the
\* batch, Content-Type set to a fixed value
NewRequest(endpoint, batch) ==
  [endpoint |-> endpoint, contentType |-> "application/x-ndjson", body |-> Body(batch)]

\* a sendBatch that takes every response for a success
sendBatch_AnyStatus(endpoint, reply) ==
  IF reply.status = 0
  THEN [err |-> TRUE,
        msg |-> <<"f", "a", "i", "l", "e", "d", " ", "t", "o", " ", "s", "e", "n", "d", " ", "r", "e", "q", "u", "e", "s", "t", ":", " ", "P", "o", "s", "t", " ", "\"">> \o endpoint
                  \o <<"\"", ":", " ">> \o reply.err]
  ELSE [err |-> FALSE, msg |-> << >>]

\* the error sendBatch returns for an answer: nil for a 2xx, the wrapped
\* url.Error of client.Do, or "HTTP <status>: <body>"
sendBatch(endpoint, reply) ==
  IF reply.status = 0
  THEN [err |-> TRUE,
        msg |-> <<"f", "a", "i", "l", "e", "d", " ", "t", "o", " ", "s", "e", "n", "d", " ", "r", "e", "q", "u", "e", "s", "t", ":", " ", "P", "o", "s", "t", " ", "\"">> \o endpoint
                  \o <<"\"", ":", " ">> \o reply.err]
  ELSE IF reply.status < 200 \/ reply.status >= 300
  THEN [err |-> TRUE,
        msg |-> <<"H", "T", "T", "P", " ">> \o Itoa(reply.status) \o <<":", " ">> \o reply.body]
  ELSE [err |-> FALSE, msg |-> << >>]

\* the sender's classification of err.Error() and the Record... call it
\* leads to: every one adds to HTTPErrors, three add to a class counter
RecordError(m, errStr) ==
  IF \/ Contains(errStr, <<"t", "i", "m", "e", "o", "u", "t">>)
     \/ Contains(errStr, <<"d", "e", "a", "d", "l", "i", "n", "e", " ", "e", "x", "c", "e", "e", "d", "e", "d">>)
  THEN [m EXCEPT !.HTTPErrors = @ + 1, !.HTTPTimeoutErrors = @ + 1]
  ELSE IF \/ Contains(errStr, <<"c", "o", "n", "n", "e", "c", "t", "i", "o", "n", " ", "r", "e", "f", "u", "s", "e", "d">>)
          \/ Contains(errStr, <<"n", "e", "t", "w", "o", "r", "k">>)
          \/ Contains(errStr, <<"d", "i", "a", "l">>)
  THEN [m EXCEPT !.HTTPErrors = @ + 1, !.HTTPNetworkErrors = @ + 1]
  ELSE IF Contains(errStr, <<"H", "T", "T", "P", " ", "5">>)
  THEN [m EXCEPT !.HTTPErrors = @ + 1, !.HTTPServerErrors = @ + 1]
  ELSE [m EXCEPT !.HTTPErrors = @ + 1]

\* the body of the sender's loop once sendBatch has returned
AfterSendBatch(batch, res) ==
  IF res.err
  THEN /\ sendErrors' = sendErrors + 1
       /\ metrics' = IF hs.metricsClient THEN RecordError(metrics, res.msg) ELSE metrics
       /\ UNCHANGED <<sentLines, sentBatches>>
  ELSE /\ sentBatches' = sentBatches + 1
       /\ sentLines' = sentLines + Len(batch)
       /\ UNCHANGED <<sendErrors, metrics>>

\* NewHTTPSender: batchChan has room for workers*2 batches
BatchChanCap == hs.workers * 2

Range(s) == {s[i] : i \in 1..Len(s)}

\* Batch.Size: every line counts len(line)+1
RECURSIVE BatchSize(_)
BatchSize(b) == IF b = << >> THEN 0 ELSE LineLen(Head(b)) + 1 + BatchSize(Tail(b))

\* lines inside the HTTP sender: line buffer, current batch, batch queue, in flight
InSender ==
  Range(lineChan) \cup Range(currentBatch)
    \cup UNION {Range(batchChan[i]) : i \in 1..Len(batchChan)}
    \cup UNION {Range(sbatch[s]) : s \in Senders}

\* ------------------------------------------------------ format detection
\* strings.Split(s, sep) for a one-character sep
RECURSIVE Split(_, _)
Split(s, sep) ==
  LET at == {i \in 1..Len(s) : s[i] = sep}
  IN  IF at = {} THEN <<s>>
      ELSE LET k == CHOOSE i \in at : \A j \in at : i <= j
           IN  <<SubSeq(s, 1, k - 1)>> \o Split(SubSeq(s, k + 1, Len(s)), sep)

\* filepath.Match(pattern, name) for a pattern of literal characters and "*":
\* "*" stands for any sequence of characters other than the separator "/"
RECURSIVE Match(_, _)
Match(pattern, name) ==
  IF pattern = << >> THEN name = << >>
  ELSE IF Head(pattern) = "*"
  THEN \E k \in 0..Len(name) :
         /\ \A i \in 1..k : name[i] # "/"
         /\ Match(Tail(pattern), SubSeq(name, k + 1, Len(name)))
  ELSE /\ name # << >>
       /\ Head(name) = Head(pattern)
       /\ Match(Tail(pattern), Tail(name))

\* NewGenericFormat(config): a format of the configuration; an empty content
\* type becomes text/plain. Name() is config.Name.
NewGenericFormat(config) ==
  [name |-> config.Name, kind |-> "generic",
   FilenamePattern |-> config.FilenamePattern,
   ContentType |-> IF config.ContentType = "" THEN "text/plain" ELSE config.ContentType]

\* NewZscalerFormat(), NewCiscoUmbrellaFormat(), in the order both
\* constructors of the registry register them
BuiltIns ==
  << [name |-> "zscaler", kind |-> "zscaler", FilenamePattern |-> << >>,
      ContentType |-> "application/x-ndjson"],
     [name |-> "cisco_umbrella", kind |-> "cisco_umbrella", FilenamePattern |-> << >>,
      ContentType |-> "text/plain"] >>

\* NewRegistryFromConfig(formatConfigs): Register, r.formats[format.Name()] =
\* format, for the format of each configuration and then for the built-in
\* ones; a later format replaces an earlier one of the same name.
\* NewRegistry() is NewRegistryFromConfig of no configuration.
NewRegistryFromConfig(cfgs) ==
  LET formats == [i \in 1..Len(cfgs) |-> NewGenericFormat(cfgs[i])] \o BuiltIns
      last(n) == CHOOSE i \in 1..Len(formats) :
                   /\ formats[i].name = n
                   /\ \A j \in 1..Len(formats) : formats[j].name = n => j <= i
  IN  [n \in {formats[i].name : i \in 1..Len(formats)} |-> formats[last(n)]]

\* format.DetectFromFilename(filename)
DetectFromFilename(format, filename) ==
  CASE format.kind = "zscaler" ->
         LET parts == Split(TrimSuffix(filename, <<".", "g", "z">>), "_")
         IN  Len(parts) >= 4 /\ ~ParseInt(parts[1]).err
    [] format.kind = "cisco_umbrella" ->
         LET csv == <<".", "c", "s", "v">>
             csvgz == <<".", "c", "s", "v", ".", "g", "z">>
             stem == IF TrimSuffix(filename, csvgz) # filename
                     THEN TrimSuffix(filename, csvgz)
                     ELSE TrimSuffix(filename, csv)
             parts == Split(stem, "-")
         IN  /\ stem # filename
             /\ Len(parts) >= 6
             /\ \A i \in 1..5 : ~ParseInt(parts[i]).err
    [] OTHER -> Match(format.FilenamePattern, filename)

\* format.DetectFromContent(sample); a sample is the sequence of its lines,
\* the empty (or nil) sample has none
DetectFromContent(format, sample) ==
  LET nonEmpty == {i \in 1..Len(sample) : TrimSpace(sample[i]) # << >>}
      line == TrimSpace(sample[CHOOSE i \in nonEmpty : \A j \in nonEmpty : i <= j])
      braces == Head(line) = "{" /\ line[Len(line)] = "}"
      csvLine(l) == "," \in Range(l) /\ Head(l) \notin {"{", "["}
      upper == <<"A", "C", "D", "E", "G", "I", "M", "N", "O", "P", "R", "S", "T", "Y">>
      lower == <<"a", "c", "d", "e", "g", "i", "m", "n", "o", "p", "r", "s", "t", "y">>
      ToLower(l) == [i \in 1..Len(l) |->
                      IF \E k \in 1..Len(upper) : upper[k] = l[i]
                      THEN lower[CHOOSE k \in 1..Len(upper) : upper[k] = l[i]]
                      ELSE l[i]]
      ciscoKeywords == << <<"t", "i", "m", "e", "s", "t", "a", "m", "p">>,
                          <<"d", "o", "m", "a", "i", "n">>,
                          <<"a", "c", "t", "i", "o", "n">>,
                          <<"i", "d", "e", "n", "t", "i", "t", "y">>,
                          <<"c", "a", "t", "e", "g", "o", "r", "i", "e", "s">> >>
      matches(header) == Cardinality({k \in 1..Len(ciscoKeywords) :
                                        Contains(ToLower(header), ciscoKeywords[k])})
  IN  IF Len(sample) = 0 THEN FALSE
      ELSE CASE format.kind = "zscaler" ->
                  nonEmpty # {} /\ braces /\ ValidJSON(line)
             [] format.kind = "cisco_umbrella" ->
                  /\ Len(sample) >= 2
                  /\ csvLine(TrimSpace(sample[1]))
                  /\ csvLine(TrimSpace(sample[2]))
                  /\ matches(TrimSpace(sample[1])) >= 2
             [] OTHER ->
                  CASE format.ContentType \in {"application/x-ndjson", "application/json"} ->
                         nonEmpty = {} \/ braces
                    [] format.ContentType = "text/plain" -> nonEmpty # {}
                    [] OTHER -> TRUE

\* no format at all: the nil LogFormat
NoFormat == [name |-> "", kind |-> "nil", FilenamePattern |-> << >>, ContentType |-> ""]

\* Registry.DetectFormat(filename, contentSample): the formats the call can
\* return. `for _, format := range r.formats` visits the entries of a Go map
\* in an order that is not specified and differs from one loop to the next,
\* so the first loop can return any format whose filename test holds and the
\* second any format whose content test holds; without a match the result
\* is r.formats["zscaler"], the nil LogFormat if the map has no such key.
DetectFormat(r, filename, contentSample) ==
  LET byFilename == {r[n] : n \in {m \in DOMAIN r : DetectFromFilename(r[m], filename)}}
      byContent == {r[n] : n \in {m \in DOMAIN r : DetectFromContent(r[m], contentSample)}}
  IN  IF byFilename # {} THEN byFilename
      ELSE IF byContent # {} THEN byContent
      ELSE {IF "zscaler" \in DOMAIN r THEN r["zscaler"] ELSE NoFormat}

\* the state after construction, for a bucket, a number of scan ticks, a
\* configured format, a wall-clock time, a pool, a state backend and the
\* record found at the state path
InitConfig(b, ticks, format, t, kind, n, bk, record, sender, fcs, sink) ==
  /\ hs = sender
  /\ pool = NewPool(PoolSize)
  /\ stopClosed = FALSE
  /\ idlePc = "none"
  /\ migratePc = "none"
  /\ lastSubmit = [n |-> 0, job |-> NoKey, stopped |-> FALSE, result |-> "none"]
  /\ connClosed = {}
  /\ dialed = PoolSize
  /\ held = {}
  /\ closePc = [c \in 1..Closers |-> "idle"]
  /\ getPc = "idle"
  /\ getConn = 0
  /\ getEntry = FALSE
  /\ putPc = "idle"
  /\ putConn = 0
  /\ putEntry = FALSE
  /\ hc = [pc |-> "select", i |-> 0, conn |-> 0]
  /\ formatConfigs = fcs
  /\ formatConfig = IF fcs = << >> THEN [SkipHeaderLines |-> 0, ContentType |-> ""]
                     ELSE [SkipHeaderLines |-> fcs[1].SkipHeaderLines,
                           ContentType |-> fcs[1].ContentType]
  /\ registry = NewRegistryFromConfig(fcs)
  /\ detected = [filename |-> << >>, sample |-> << >>, format |-> NoFormat]
  /\ replies = sink
  /\ sreq = [s \in 1..sender.workers |-> NoRequest]
  /\ sentLines = 0
  /\ sentBatches = 0
  /\ sendCalls = [batches |-> 0,
              lines |-> [l \in UNION {{<<o, i>> : i \in 1..Len(b[o].lines)} :
                                        o \in 1..Len(b)} |-> 0]]
  /\ sendErrors = 0
  /\ metrics = [HTTPErrors |-> 0, HTTPNetworkErrors |-> 0, HTTPTimeoutErrors |-> 0,
                HTTPServerErrors |-> 0]
  /\ backend = bk
  /\ disk = [p \in {FilePath, TmpPath(FilePath)} |->
               IF p = FilePath THEN record ELSE NoFile]
  /\ savePc = "none"
  /\ saveData = << >>
  /\ runPc = "none"
  /\ stopPc = "none"
  /\ crashed = FALSE
  /\ loadErr = FALSE
  /\ restarts = 0
  /\ saveCount = 0
  /\ ioErrors = 0
  /\ updates = 0
  /\ calls = 0
  /\ callBytes = 0
  /\ base = NewManager(record, FALSE).st
  /\ atStop = NewManager(record, FALSE).st
  /\ savedState = NewManager(record, FALSE).st
  /\ lastSaveErr = FALSE
  /\ lastLoad = NewManager(record, FALSE).load
  /\ state = NewManager(record, FALSE).st
  /\ bucket = b
  /\ logFormat = format
  /\ poolKind = kind
  /\ workerCount = n
  /\ now = t
  /\ scanBudget = ticks
  /\ dirty = FALSE
  /\ jobQueue = << >>
  /\ jobClosed = FALSE
  /\ wpc = [w \in 1..n |-> "idle"]
  /\ wjob = [w \in 1..n |-> NoKey]
  /\ widx = [w \in 1..n |-> 0]
  /\ errors = 0
  /\ filesProcessed = 0
  /\ completed = [o \in 1..Len(b) |-> 0]
  /\ lineChan = << >>
  /\ lineClosed = FALSE
  /\ bpc = "select"
  /\ currentBatch = << >>
  /\ batchChan = << >>
  /\ batchClosed = FALSE
  /\ doneClosed = FALSE
  /\ cancelled = FALSE
  /\ spc = [s \in 1..sender.workers |-> "recv"]
  /\ sbatch = [s \in 1..sender.workers |-> << >>]
  /\ supPc = "run"
  /\ panicked = FALSE
  /\ acked = {}
  /\ failed = {}
  /\ forwarded = {}
  /\ posted = {}
  /\ accepted = {}
  /\ atShutdown = {}
  /\ lastScan = [n |-> 0, now |-> t, from |-> 0, key |-> NoKey, jobs |-> << >>,
                 acked |-> {}, ok |-> << >>, submitted |-> 0]
  /\ lastListError = [n |-> 0, now |-> t, from |-> 0, key |-> NoKey,
                      request |-> <<0, 0>>, jobs |-> << >>]
  /\ lastCall = [ts |-> 0, key |-> NoKey, bytes |-> 0]

\* the same with HTTPWorkers senders for two endpoints, no metrics client, a
\* user-defined format that skips no header, and sinks that answer anything
InitStore(b, ticks, format, t, kind, n, bk, record) ==
  InitConfig(b, ticks, format, t, kind, n, bk, record,
             [endpoints |-> Endpoints, workers |-> HTTPWorkers,
              batchLines |-> BatchLines, batchBytes |-> BatchBytes,
              metricsClient |-> FALSE],
             <<[Name |-> "generic", FilenamePattern |-> <<"*">>,
                SkipHeaderLines |-> 0, ContentType |-> ""]>>, Outcomes)

\* a pool on the file backend with nothing at the state path
InitPool(b, ticks, format, t, kind, n) ==
  InitStore(b, ticks, format, t, kind, n, "file", NoFile)

\* the HTTP pool with its configured number of workers
InitAt(b, ticks, format, t) == InitPool(b, ticks, format, t, "http", WorkerCount)

InitWith(b, ticks) == InitAt(b, ticks, "generic", Now0)

Init == InitWith(PipelineBucket, PipelineScans)
WatermarkInit == InitWith(WatermarkBucket, WatermarkScans)
\* a scanner started on one of the listings, with the zscaler descriptor or
\* with a user-defined one, at a time that gives one of the window ends
\* (Scan reads now and delay_window only through now - delay_window)
ZscalerInit ==
  \E b \in ZscalerBuckets, format \in {"zscaler", "generic"}, e \in ZscalerEnds :
    InitAt(b, WatermarkScans, format, e + DelayWindow)

\* ------------------------------------------------------------- supervisor
\* the wall clock advances
ClockTick ==
  /\ now < Now0 + MaxClockSteps
  /\ now' = now + 1
  /\ UNCHANGED <<bucket, logFormat, poolKind, workerCount, hs, formatConfig, replies,
                 formatConfigs, registry, detected, tcpVars, apiVars,
                 sinkVars, storeVars, scanBudget, state, dirty,
                 poolVars, senderVars, supPc, panicked, histVars>>

\* a job queue that takes a job whatever it holds
QueueHasRoom_Always(queue) == TRUE

\* case hp.jobQueue <- job is ready: the buffered channel is not full
QueueHasRoom(queue) == Len(queue) < QueueSize

\* HTTPPool.Submit on a running pool: a select with a default case, true
\* when the send went through, false otherwise
Submit(queue, job) ==
  IF QueueHasRoom(queue)
  THEN [ok |-> TRUE, queue |-> Append(queue, job)]
  ELSE [ok |-> FALSE, queue |-> queue]

\* Submit for each job of one scan, in order: the queue afterwards and what
\* each call returned
RECURSIVE SubmitEach(_, _)
SubmitEach(queue, jobs) ==
  IF jobs = << >> THEN [queue |-> queue, ok |-> << >>]
  ELSE LET r    == Submit(queue, Head(jobs))
           rest == SubmitEach(r.queue, Tail(jobs))
       IN  [queue |-> rest.queue, ok |-> <<r.ok>> \o rest.ok]

SubmitAll(queue, jobs) == SubmitEach(queue, jobs).queue

\* one scan tick of the main loop: read the watermark, Scan, Submit
ScanTick ==
  /\ supPc = "run"
  /\ scanBudget > 0
  /\ LET jobs == Scan(state.ts, state.key, now)
     IN  /\ jobQueue' = SubmitAll(jobQueue, jobs)
         /\ lastScan' = [n |-> lastScan.n + 1, now |-> now, from |-> state.ts,
                         key |-> state.key, jobs |-> jobs, acked |-> acked,
                         ok |-> SubmitEach(jobQueue, jobs).ok,
                         submitted |-> lastScan.submitted
                           + Cardinality({i \in 1..Len(jobs) :
                                           SubmitEach(jobQueue, jobs).ok[i]})]
  /\ scanBudget' = scanBudget - 1
  /\ UNCHANGED <<envVars, sinkVars, storeVars, state, dirty, jobClosed, wpc, wjob, widx, errors, filesProcessed,
                 completed, senderVars, supPc, panicked,
                 acked, failed, forwarded, posted, accepted, atShutdown,
                 lastListError, lastCall>>

\* the main loop hands the pool a job for one object: HTTPPool.Submit
SubmitJob ==
  /\ supPc = "run"
  /\ scanBudget > 0
  /\ \E o \in Objs : jobQueue' = Submit(jobQueue, o).queue
  /\ scanBudget' = scanBudget - 1
  /\ UNCHANGED <<envVars, sinkVars, storeVars, state, dirty, jobClosed, wpc, wjob, widx,
                 errors, filesProcessed, completed, senderVars, supPc, panicked,
                 histVars>>

\* a scan tick during which a LIST request fails: Scan returns the error, the
\* tick is abandoned
ScanTickListError ==
  /\ supPc = "run"
  /\ scanBudget > 0
  /\ \E r \in PageRequests(state.ts, state.key, now) :
       LET res == ScanListError(state.ts, state.key, now, r[1], r[2])
       IN  lastListError' = [n |-> lastListError.n + 1, now |-> now,
                             from |-> state.ts, key |-> state.key,
                             request |-> r, jobs |-> res.jobs]
  /\ scanBudget' = scanBudget - 1
  /\ UNCHANGED <<envVars, sinkVars, storeVars, state, dirty, poolVars, senderVars, supPc, panicked,
                 acked, failed, forwarded, posted, accepted, atShutdown,
                 lastScan, lastCall>>

\* the state update for a job that was processed without error
AckJob ==
  \E o \in Objs :
    /\ completed[o] > 0
    /\ completed' = [completed EXCEPT ![o] = @ - 1]
    /\ state' = UpdateProgress(state, bucket[o].ts, o, ByteCount(o))
    /\ dirty' = TRUE
    /\ acked' = acked \cup {o}
    /\ lastCall' = [ts |-> bucket[o].ts, key |-> o, bytes |-> ByteCount(o)]
    /\ UNCHANGED <<envVars, sinkVars, storeVars, scanBudget, jobQueue, jobClosed, wpc, wjob, widx, errors, filesProcessed,
                   senderVars, supPc, panicked,
                   failed, forwarded, posted, accepted, atShutdown, lastScan, lastListError>>

\* the termination signal: the scanner ticker stops, shutdown begins
Shutdown ==
  /\ supPc = "run"
  /\ supPc' = "poolStop"
  /\ UNCHANGED <<envVars, sinkVars, storeVars, scanBudget, state, dirty, poolVars, senderVars, panicked,
                 histVars>>

\* ------------------------------------------------------ download workers
\* an error counter that a failed job leaves alone
CountError_Never(count) == count

\* errors.Add(1) in the worker loop of each pool
CountError(count) == count + 1

\* HTTPPool.worker: range over jobQueue; processFile starts with GetObject
\* and gzip.NewReader, either of which may fail
WorkerTake(w) ==
  /\ wpc[w] = "idle"
  /\ jobQueue # << >>
  /\ jobQueue' = Tail(jobQueue)
  /\ \E ok \in BOOLEAN :
       IF ok
       THEN /\ wpc' = [wpc EXCEPT ![w] = "scan"]
            /\ wjob' = [wjob EXCEPT ![w] = Head(jobQueue)]
            /\ widx' = [widx EXCEPT ![w] = 1]
            /\ UNCHANGED <<failed, errors>>
       ELSE /\ errors < MaxJobErrors
            /\ errors' = CountError(errors)
            /\ failed' = failed \cup {Head(jobQueue)}
            /\ UNCHANGED <<wpc, wjob, widx>>
  /\ UNCHANGED <<envVars, sinkVars, storeVars, scanBudget, state, dirty, jobClosed, completed,
                 filesProcessed,
                 senderVars, supPc, panicked, acked, forwarded, posted, accepted,
                 atShutdown, lastScan, lastListError, lastCall>>

\* the worker's range loop ends when jobQueue is closed and empty
WorkerExit(w) ==
  /\ wpc[w] = "idle"
  /\ jobQueue = << >>
  /\ jobClosed
  /\ wpc' = [wpc EXCEPT ![w] = "exited"]
  /\ UNCHANGED <<envVars, sinkVars, storeVars, scanBudget, state, dirty, jobQueue, jobClosed, wjob, widx,
                 errors, filesProcessed, completed, senderVars, supPc, panicked,
                 histVars>>

\* processFile: scanner.Scan() yields the next line, which ProcessContent
\* keeps, filters out or rejects; or the stream ends; or the read fails
\* (scanner.Err)
WorkerScan(w) ==
  /\ wpc[w] = "scan"
  /\ \E err \in BOOLEAN :
       LET lines == bucket[wjob[w]].lines
           more == widx[w] <= Len(lines)
           processed == IF more THEN ProcessContent(lines[widx[w]], widx[w] = 1)
                        ELSE [err |-> FALSE, nil |-> TRUE]
       IN
       IF err \/ processed.err
       THEN /\ errors < MaxJobErrors
            /\ errors' = CountError(errors)
            /\ wpc' = [wpc EXCEPT ![w] = "idle"]
            /\ wjob' = [wjob EXCEPT ![w] = NoKey]
            /\ widx' = [widx EXCEPT ![w] = 0]
            /\ failed' = failed \cup {wjob[w]}
            /\ UNCHANGED <<completed, filesProcessed>>
       ELSE IF more /\ processed.nil
       THEN /\ widx' = [widx EXCEPT ![w] = @ + 1]
            /\ UNCHANGED <<wpc, wjob, errors, filesProcessed, completed, failed>>
       ELSE IF more
       THEN /\ wpc' = [wpc EXCEPT ![w] = "send"]
            /\ UNCHANGED <<wjob, widx, errors, filesProcessed, completed, failed>>
       ELSE /\ wpc' = [wpc EXCEPT ![w] = "idle"]
            /\ wjob' = [wjob EXCEPT ![w] = NoKey]
            /\ widx' = [widx EXCEPT ![w] = 0]
            /\ completed' = [completed EXCEPT ![wjob[w]] = @ + 1]
            /\ failed' = failed \ {wjob[w]}
            /\ filesProcessed' = filesProcessed + 1
            /\ UNCHANGED errors
  /\ UNCHANGED <<envVars, sinkVars, storeVars, scanBudget, state, dirty, jobQueue, jobClosed,
                 senderVars, supPc, panicked, acked, forwarded, posted, accepted,
                 atShutdown, lastScan, lastListError, lastCall>>

\* a send that goes through although the buffer is full
SendLineReady_NeverBlocks(ch) == TRUE

\* HTTPSender.SendLine: hs.lineChan <- line blocks while the buffer is full
SendLineReady(ch) == Len(ch) < BufferSize

\* hp.httpSender.SendLine(lineCopy) in processFile; a send on a closed channel
\* panics
WorkerSendLine(w) ==
  /\ wpc[w] = "send"
  /\ IF lineClosed
     THEN /\ panicked' = TRUE
          /\ wpc' = [wpc EXCEPT ![w] = "exited"]
          /\ UNCHANGED <<lineChan, widx, forwarded>>
     ELSE /\ SendLineReady(lineChan)
          /\ lineChan' = Append(lineChan, <<wjob[w], widx[w]>>)
          /\ forwarded' = forwarded \cup {<<wjob[w], widx[w]>>}
          /\ widx' = [widx EXCEPT ![w] = @ + 1]
          /\ wpc' = [wpc EXCEPT ![w] = "scan"]
          /\ UNCHANGED panicked
  /\ UNCHANGED <<envVars, sinkVars, storeVars, scanBudget, state, dirty, jobQueue, jobClosed, wjob,
                 errors, filesProcessed, completed, lineClosed, bpc, currentBatch, batchChan,
                 batchClosed, doneClosed, cancelled, spc, sbatch,
                 supPc, acked, failed, posted, accepted,
                 atShutdown, lastScan, lastListError, lastCall>>

\* -------------------------------------------------------------- batcher
\* a batcher that flushes on the line count alone
BatchFull_LinesOnly(b) == Len(b) >= hs.batchLines

\* the flush condition after a line was added (http_sender.go:164)
BatchFull(b) == Len(b) >= hs.batchLines \/ BatchSize(b) >= hs.batchBytes

\* a batcher that loses the line it received
AddLine_Dropped(lines, line) == lines

\* a batcher that puts a new line in front of the lines it holds
AddLine_InFront(lines, line) == <<line>> \o lines

\* currentBatch.Lines = append(currentBatch.Lines, line)
AddLine(lines, line) == Append(lines, line)

\* case line, ok := <-hs.lineChan with ok: add the line, flush when full
BatcherRecv ==
  /\ bpc = "select"
  /\ lineChan # << >>
  /\ lineChan' = Tail(lineChan)
  /\ currentBatch' = AddLine(currentBatch, Head(lineChan))
  /\ bpc' = IF BatchFull(currentBatch') THEN "flush" ELSE "select"
  /\ UNCHANGED <<envVars, sinkVars, storeVars, scanBudget, state, dirty, poolVars, lineClosed, batchChan,
                 batchClosed, doneClosed, cancelled, spc, sbatch, supPc, panicked,
                 histVars>>

\* a flushBatch that sends the current batch even when it is empty
FlushNeeded_Always(b) == TRUE

\* flushBatch: if len(currentBatch.Lines) > 0
FlushNeeded(b) == Len(b) > 0

\* case <-flushTicker.C: flushBatch, which does nothing for an empty batch
BatcherTick ==
  /\ bpc = "select"
  /\ bpc' = IF FlushNeeded(currentBatch) THEN "flush" ELSE "select"
  /\ UNCHANGED <<envVars, sinkVars, storeVars, scanBudget, state, dirty, poolVars, lineChan, lineClosed,
                 currentBatch, batchChan, batchClosed, doneClosed, cancelled, spc,
                 sbatch, supPc, panicked, histVars>>

\* the line buffer is closed and drained (!ok), or doneChan is closed:
\* flushBatch, then return
BatcherClosed ==
  /\ bpc = "select"
  /\ (lineClosed /\ lineChan = << >>) \/ doneClosed
  /\ bpc' = IF currentBatch = << >> THEN "exited" ELSE "flushExit"
  /\ UNCHANGED <<envVars, sinkVars, storeVars, scanBudget, state, dirty, poolVars, lineChan, lineClosed,
                 currentBatch, batchChan, batchClosed, doneClosed, cancelled, spc,
                 sbatch, supPc, panicked, histVars>>

\* flushBatch: select { case hs.batchChan <- currentBatch; case <-hs.doneChan }
BatcherFlush ==
  /\ bpc \in {"flush", "flushExit"}
  /\ IF Len(batchChan) < BatchChanCap /\ ~batchClosed
     THEN /\ batchChan' = Append(batchChan, currentBatch)
          /\ currentBatch' = << >>
     ELSE /\ doneClosed
          /\ UNCHANGED <<batchChan, currentBatch>>
  /\ bpc' = IF bpc = "flush" THEN "select" ELSE "exited"
  /\ UNCHANGED <<envVars, sinkVars, storeVars, scanBudget, state, dirty, poolVars, lineChan, lineClosed,
                 batchClosed, doneClosed, cancelled, spc, sbatch, supPc, panicked,
                 histVars>>

\* ------------------------------------------------------- sender workers
\* client.Do on a request whose context is already cancelled fails before
\* anything is sent
RequestStarts(ctxCancelled) == ~ctxCancelled

\* for batch := range hs.batchChan: take a batch and start sendBatch (with a
\* cancelled context client.Do fails at once, the error is counted and the
\* batch dropped), or leave the loop when batchChan is closed and empty
SenderRecv(s) ==
  /\ spc[s] = "recv"
  /\ IF batchChan # << >>
     THEN /\ batchChan' = Tail(batchChan)
          /\ sendCalls' = [batches |-> sendCalls.batches + 1,
                       lines |-> [l \in DOMAIN sendCalls.lines |->
                                    sendCalls.lines[l]
                                      + Cardinality({k \in 1..Len(Head(batchChan)) :
                                                      Head(batchChan)[k] = l})]]
          /\ IF RequestStarts(cancelled)
             THEN /\ spc' = [spc EXCEPT ![s] = "post"]
                  /\ sbatch' = [sbatch EXCEPT ![s] = Head(batchChan)]
                  /\ sreq' = [sreq EXCEPT ![s] =
                                NewRequest(Endpoint(s - 1, sentBatches + sendErrors),
                                           Head(batchChan))]
                  /\ UNCHANGED <<sentLines, sentBatches, sendErrors, metrics>>
             ELSE /\ AfterSendBatch(Head(batchChan),
                       sendBatch(Endpoint(s - 1, sentBatches + sendErrors),
                                 Reply(0, << >>, <<"c", "o", "n", "t", "e", "x", "t", " ", "c", "a", "n", "c", "e", "l", "e", "d">>)))
                  /\ UNCHANGED <<spc, sbatch, sreq>>
     ELSE /\ batchClosed
          /\ spc' = [spc EXCEPT ![s] = "exited"]
          /\ UNCHANGED <<batchChan, sbatch, sinkVars>>
  /\ UNCHANGED <<envVars, storeVars, scanBudget, state, dirty, poolVars, lineChan, lineClosed, bpc,
                 currentBatch, batchClosed, doneClosed, cancelled, supPc, panicked,
                 histVars>>

\* sendBatch returns: nil for 2xx, an error otherwise; the sender logs the
\* failed batch and drops it
SenderResponse(s) ==
  /\ spc[s] = "post"
  /\ \E r \in replies :
       /\ posted' = IF r.status = 0 THEN posted ELSE posted \cup Range(sbatch[s])
       /\ accepted' = IF r.status \in 200..299 THEN accepted \cup Range(sbatch[s])
                      ELSE accepted
       /\ AfterSendBatch(sbatch[s], sendBatch(sreq[s].endpoint, r))
  /\ spc' = [spc EXCEPT ![s] = "recv"]
  /\ sbatch' = [sbatch EXCEPT ![s] = << >>]
  /\ sreq' = [sreq EXCEPT ![s] = NoRequest]
  /\ UNCHANGED <<sendCalls, envVars, storeVars, scanBudget, state, dirty, poolVars, lineChan, lineClosed, bpc,
                 currentBatch, batchChan, batchClosed, doneClosed, cancelled, supPc,
                 panicked, acked, failed, forwarded, atShutdown, lastScan, lastListError, lastCall>>

\* ------------------------------------------------------------- shutdown
\* a Stop that does not wait for the workers
PoolWgDone_NoWait(pcs) == TRUE

\* hp.wg.Wait() in HTTPPool.Stop: every worker has returned
PoolWgDone(pcs) == \A w \in Workers : pcs[w] = "exited"

\* HTTPPool.Stop: close(stopChan) ... (the same in Pool.Stop, FilePool.Stop)
HTTPPoolStopChan ==
  /\ supPc = "poolStop"
  /\ ~stopClosed
  /\ stopClosed' = TRUE
  /\ UNCHANGED <<bucket, logFormat, poolKind, workerCount, hs, formatConfig, replies,
                 formatConfigs, registry, detected, now, tcpVars, idlePc, lastSubmit, migratePc,
                 sinkVars, storeVars, scanBudget, state, dirty, poolVars, senderVars,
                 supPc, panicked, histVars>>

\* ... close(jobQueue) ...
HTTPPoolStopClose ==
  /\ supPc = "poolStop"
  /\ stopClosed
  /\ jobClosed' = TRUE
  /\ supPc' = "poolWait"
  /\ UNCHANGED <<envVars, sinkVars, storeVars, scanBudget, state, dirty, jobQueue, wpc, wjob, widx,
                 errors, filesProcessed, completed, senderVars, panicked,
                 histVars>>

\* ... hp.wg.Wait(); then the supervisor goes on to HTTPSender.Stop
HTTPPoolStopWait ==
  /\ supPc = "poolWait"
  /\ PoolWgDone(wpc)
  /\ supPc' = "cancel"
  /\ atShutdown' = InSender
  /\ UNCHANGED <<envVars, sinkVars, storeVars, scanBudget, state, dirty, poolVars, senderVars, panicked,
                 acked, failed, forwarded, posted, accepted, lastScan, lastListError, lastCall>>

\* hs.wg.Wait() in HTTPSender.Stop: the batcher and every sender have returned
SenderWgDone == bpc = "exited" /\ \A s \in Senders : spc[s] = "exited"

\* HTTPSender.Stop, statement by statement
HTTPSenderStop ==
  /\ supPc \in {"cancel", "closeLine", "wgWait", "closeBatch", "closeDone"}
  /\ CASE supPc = "cancel" ->
            /\ cancelled' = TRUE
            /\ supPc' = "closeLine"
            /\ UNCHANGED <<lineClosed, batchClosed, doneClosed>>
       [] supPc = "closeLine" ->
            /\ lineClosed' = TRUE
            /\ supPc' = "wgWait"
            /\ UNCHANGED <<cancelled, batchClosed, doneClosed>>
       [] supPc = "wgWait" ->
            /\ SenderWgDone
            /\ supPc' = "closeBatch"
            /\ UNCHANGED <<cancelled, lineClosed, batchClosed, doneClosed>>
       [] supPc = "closeBatch" ->
            /\ batchClosed' = TRUE
            /\ supPc' = "closeDone"
            /\ UNCHANGED <<cancelled, lineClosed, doneClosed>>
       [] supPc = "closeDone" ->
            /\ doneClosed' = TRUE
            /\ supPc' = "stopped"
            /\ UNCHANGED <<cancelled, lineClosed, batchClosed>>
  /\ UNCHANGED <<envVars, sinkVars, storeVars, scanBudget, state, dirty, poolVars, lineChan, bpc,
                 currentBatch, batchChan, spc, sbatch, panicked, histVars>>

\* ------------------------------------------- file and TCP pool workers
\* the steps of processing a job that can fail, by pool
FailSteps(kind) ==
  IF kind = "file" THEN {"fetch", "gunzip", "write", "scan"}
  ELSE IF kind = "tcp" THEN {"fetch", "gunzip", "connect", "stream"}
  ELSE {"fetch", "gunzip", "format", "scan"}

\* FilePool.processJob's totalBytes: every non-empty line and its newline
RECURSIVE totalBytes(_)
totalBytes(lines) ==
  IF lines = << >> THEN 0
  ELSE (IF Len(Head(lines)) = 0 THEN 0 ELSE Len(Head(lines)) + 1)
         + totalBytes(Tail(lines))

\* Pool.processJob's written: io.Copy of the decompressed stream, whose
\* lines end with a newline each
RECURSIVE written(_)
written(lines) ==
  IF lines = << >> THEN 0 ELSE Len(Head(lines)) + 1 + written(Tail(lines))

\* the byte count a file or TCP worker reports for an object
ProcessedBytes(kind, o) ==
  IF kind = "file" THEN totalBytes(bucket[o].lines) ELSE written(bucket[o].lines)

\* FilePool.worker / Pool.worker: the select receives a job
PoolWorkerTake(w) ==
  /\ poolKind \in {"file", "tcp"}
  /\ wpc[w] = "idle"
  /\ jobQueue # << >>
  /\ jobQueue' = Tail(jobQueue)
  /\ wpc' = [wpc EXCEPT ![w] = "process"]
  /\ wjob' = [wjob EXCEPT ![w] = Head(jobQueue)]
  /\ UNCHANGED <<envVars, sinkVars, storeVars, scanBudget, state, dirty, jobClosed, widx, errors,
                 filesProcessed, completed, senderVars, supPc, panicked, histVars>>

\* FilePool.processJob / Pool.processJob and the worker's bookkeeping: a step
\* fails and the error is counted, or the object is written out and
\* UpdateProgress is called
processJob(w) ==
  /\ wpc[w] = "process"
  /\ wpc' = [wpc EXCEPT ![w] = "idle"]
  /\ wjob' = [wjob EXCEPT ![w] = NoKey]
  /\ LET o == wjob[w]
     IN \E outcome \in FailSteps(poolKind) \cup {"ok"} :
          IF outcome = "ok"
          THEN /\ state' = UpdateProgress(state, bucket[o].ts, o,
                                          ProcessedBytes(poolKind, o))
               /\ dirty' = TRUE
               /\ filesProcessed' = filesProcessed + 1
               /\ acked' = acked \cup {o}
               /\ failed' = failed \ {o}
               /\ lastCall' = [ts |-> bucket[o].ts, key |-> o,
                               bytes |-> ProcessedBytes(poolKind, o)]
               /\ UNCHANGED errors
          ELSE /\ errors < MaxJobErrors
               /\ errors' = CountError(errors)
               /\ failed' = failed \cup {o}
               /\ UNCHANGED <<state, dirty, filesProcessed, acked, lastCall>>
  /\ UNCHANGED <<envVars, sinkVars, storeVars, scanBudget, jobQueue, jobClosed, widx, completed,
                 senderVars, supPc, panicked, forwarded, posted, accepted,
                 atShutdown, lastScan, lastListError>>

\* ------------------------------------------------------ the state manager
\* the objects whose jobs update the state manager
StateBucket ==
  << [day |-> 1, ts |-> DayLen + 30, seq |-> 1, valid |-> TRUE, lines |-> << <<"a">> >>],
     [day |-> 1, ts |-> DayLen + 29, seq |-> 2, valid |-> TRUE,
      lines |-> << <<"a", "a">>, <<"a">> >>] >>

\* a record left at the state path by an earlier run
EarlierState == [ts |-> DayLen + 29, key |-> 2, files |-> 1, bytes |-> 5]

\* Manager.Start: go m.periodicSave()
Start ==
  /\ ~crashed
  /\ runPc = "none"
  /\ runPc' = "select"
  /\ UNCHANGED <<pipelineVars, state, dirty, lastCall, backend, disk, savePc, saveData,
                 stopPc, crashed, loadErr, restarts, saveCount, ioErrors, updates,
                 calls, callBytes, base, atStop, savedState, lastSaveErr, lastLoad>>

\* a worker calls UpdateProgress for the job of an object (m.mu is free)
UpdateProgressCall ==
  /\ ~crashed
  /\ savePc = "none"
  /\ updates < MaxUpdates
  /\ \E o \in Objs :
       /\ state' = UpdateProgress(state, bucket[o].ts, o, ProcessedBytes("file", o))
       /\ callBytes' = callBytes + ProcessedBytes("file", o)
       /\ lastCall' = [ts |-> bucket[o].ts, key |-> o,
                       bytes |-> ProcessedBytes("file", o)]
  /\ dirty' = TRUE
  /\ updates' = updates + 1
  /\ calls' = calls + 1
  /\ UNCHANGED <<pipelineVars, backend, disk, savePc, saveData, runPc, stopPc, crashed,
                 loadErr, restarts, saveCount, ioErrors, base, atStop, savedState,
                 lastSaveErr, lastLoad>>

\* a dirty flag that a failed Save clears
DirtyAfterError_Cleared(d) == FALSE

\* Save returns an error before it reaches m.dirty = false
DirtyAfterError(d) == d

\* Save returns to its caller: periodicSave goes back to its select, Stop
\* returns
SaveReturns(err) ==
  /\ savePc' = "none"
  /\ saveData' = << >>
  /\ lastSaveErr' = err
  /\ runPc' = IF runPc = "saving" THEN "select" ELSE runPc
  /\ stopPc' = IF stopPc = "saving" THEN "returned" ELSE stopPc

\* Save, from the lock to the marshalled data: called by periodicSave on a
\* tick or by Stop after periodicSave has exited
SaveBegin(caller) ==
  /\ ~crashed
  /\ savePc = "none"
  /\ IF caller = "periodic" THEN runPc = "select" /\ saveCount < MaxSaves
                            ELSE stopPc = "waited"
  /\ saveCount' = saveCount + 1
  /\ IF ~dirty
     THEN /\ savePc' = "none"
          /\ saveData' = << >>
          /\ lastSaveErr' = FALSE
          /\ runPc' = runPc
          /\ stopPc' = IF caller = "stop" THEN "returned" ELSE stopPc
     ELSE /\ savePc' = IF backend = "file" THEN "write" ELSE "set"
          /\ saveData' = Marshal(state)
          /\ runPc' = IF caller = "periodic" THEN "saving" ELSE runPc
          /\ stopPc' = IF caller = "stop" THEN "saving" ELSE stopPc
          /\ UNCHANGED lastSaveErr
  /\ UNCHANGED <<pipelineVars, state, dirty, lastCall, backend, disk, crashed, loadErr,
                 restarts, ioErrors, updates, calls, callBytes, base, atStop, savedState,
                 lastLoad>>

\* what a write of the data that did not finish can leave in the file: the
\* shortest and the longest part of it
PartWritten(data) == {SubSeq(data, 1, k) : k \in {0, Len(data) - 1}}

\* Save: os.WriteFile(tmpPath, data) writes all of the data, or fails and
\* leaves what it wrote
SaveWriteFile ==
  /\ ~crashed
  /\ savePc = "write"
  /\ \E ok \in BOOLEAN :
       IF ok
       THEN /\ disk' = [disk EXCEPT ![TmpPath(FilePath)] = FileOf(saveData)]
            /\ savePc' = "rename"
            /\ UNCHANGED <<saveData, lastSaveErr, runPc, stopPc, ioErrors, dirty>>
       ELSE /\ ioErrors < MaxIOErrors
            /\ ioErrors' = ioErrors + 1
            /\ dirty' = DirtyAfterError(dirty)
            /\ \E part \in PartWritten(saveData) :
                 disk' \in {disk, [disk EXCEPT ![TmpPath(FilePath)] = FileOf(part)]}
            /\ SaveReturns(TRUE)
  /\ UNCHANGED <<pipelineVars, state, lastCall, backend, crashed, loadErr,
                 restarts, saveCount, updates, calls, callBytes, base, atStop, savedState,
                 lastLoad>>

\* Save: os.Rename(tmpPath, m.filePath), then m.dirty = false
SaveRename ==
  /\ ~crashed
  /\ savePc = "rename"
  /\ \E ok \in BOOLEAN :
       IF ok
       THEN /\ disk' = Rename(disk, TmpPath(FilePath), FilePath)
            /\ dirty' = FALSE
            /\ savedState' = state
            /\ SaveReturns(FALSE)
            /\ UNCHANGED ioErrors
       ELSE /\ ioErrors < MaxIOErrors
            /\ ioErrors' = ioErrors + 1
            /\ dirty' = DirtyAfterError(dirty)
            /\ SaveReturns(TRUE)
            /\ UNCHANGED <<disk, savedState>>
  /\ UNCHANGED <<pipelineVars, state, lastCall, backend, crashed, loadErr, restarts,
                 saveCount, updates, calls, callBytes, base, atStop, lastLoad>>

\* RedisStateManager.Save: client.Set(key, data), then m.dirty = false; a SET
\* that returns an error may or may not have reached the server
SaveSet ==
  /\ ~crashed
  /\ savePc = "set"
  /\ \E ok \in BOOLEAN, applied \in BOOLEAN :
       /\ ok => applied
       /\ IF applied
          THEN disk' = [disk EXCEPT ![FilePath] = FileOf(saveData)] /\ savedState' = state
          ELSE UNCHANGED <<disk, savedState>>
       /\ IF ok
          THEN dirty' = FALSE /\ SaveReturns(FALSE) /\ UNCHANGED ioErrors
          ELSE /\ ioErrors < MaxIOErrors
               /\ ioErrors' = ioErrors + 1
               /\ SaveReturns(TRUE)
               /\ dirty' = DirtyAfterError(dirty)
  /\ UNCHANGED <<pipelineVars, state, lastCall, backend, crashed, loadErr, restarts,
                 saveCount, updates, calls, callBytes, base, atStop, lastLoad>>

\* periodicSave: case <-m.stopCh, return; the deferred close(m.doneCh)
PeriodicExit ==
  /\ ~crashed
  /\ runPc = "select"
  /\ stopPc # "none"
  /\ runPc' = "exited"
  /\ UNCHANGED <<pipelineVars, state, dirty, lastCall, backend, disk, savePc, saveData,
                 stopPc, crashed, loadErr, restarts, saveCount, ioErrors, updates,
                 calls, callBytes, base, atStop, savedState, lastSaveErr, lastLoad>>

\* Stop on a started manager: close(m.stopCh)
StopCall ==
  /\ ~crashed
  /\ stopPc = "none"
  /\ runPc # "none"
  /\ stopPc' = "closed"
  /\ atStop' = state
  /\ UNCHANGED <<pipelineVars, state, dirty, lastCall, backend, disk, savePc, saveData,
                 runPc, crashed, loadErr, restarts, saveCount, ioErrors, updates,
                 calls, callBytes, base, savedState, lastSaveErr, lastLoad>>

\* a Stop that returns without a last Save
AfterDone_Return == "returned"

\* Stop: after <-m.doneCh comes the final m.Save()
AfterDone == "waited"

\* Stop: <-m.doneCh
StopWait ==
  /\ ~crashed
  /\ stopPc = "closed"
  /\ runPc = "exited"
  /\ stopPc' = AfterDone
  /\ UNCHANGED <<pipelineVars, state, dirty, lastCall, backend, disk, savePc, saveData,
                 runPc, crashed, loadErr, restarts, saveCount, ioErrors, updates,
                 calls, callBytes, base, atStop, savedState, lastSaveErr, lastLoad>>

\* what the process holds in memory is gone
MemoryLost ==
  /\ state' = ZeroState
  /\ dirty' = FALSE
  /\ savePc' = "none"
  /\ saveData' = << >>
  /\ runPc' = "none"
  /\ stopPc' = "none"
  /\ calls' = 0
  /\ callBytes' = 0
  /\ base' = ZeroState
  /\ atStop' = ZeroState
  /\ lastSaveErr' = FALSE

\* the process crashes or exits; a crash inside os.WriteFile leaves the
\* temporary file as it was, empty, or partly written
Crash ==
  /\ ~crashed
  /\ crashed' = TRUE
  /\ IF savePc = "write"
     THEN \E part \in PartWritten(saveData) :
            disk' \in {disk, [disk EXCEPT ![TmpPath(FilePath)] = FileOf(part)]}
     ELSE UNCHANGED disk
  /\ MemoryLost
  /\ UNCHANGED <<pipelineVars, lastCall, backend, loadErr, restarts, saveCount,
                 ioErrors, updates, savedState, lastLoad>>

\* a new process constructs its state manager: NewManager /
\* NewRedisStateManager on what is at the state path; the read may fail
Restart ==
  /\ crashed
  /\ ~loadErr
  /\ restarts < MaxRestarts
  /\ restarts' = restarts + 1
  /\ \E readErr \in BOOLEAN :
       LET m == NewManager(disk[FilePath], readErr)
       IN  /\ readErr => ioErrors < MaxIOErrors
           /\ ioErrors' = IF readErr THEN ioErrors + 1 ELSE ioErrors
           /\ lastLoad' = m.load
           /\ loadErr' = m.err
           /\ crashed' = m.err
           /\ state' = m.st
           /\ base' = m.st
           /\ atStop' = m.st
  /\ UNCHANGED <<pipelineVars, dirty, lastCall, backend, disk, savePc, saveData, runPc,
                 stopPc, saveCount, updates, calls, callBytes, savedState, lastSaveErr>>

\* ---------------------------------------------------------- specification
\* a state manager of either backend, constructed on an empty state path or
\* on the record of an earlier run
StateInit ==
  \E bk \in {"file", "redis"}, record \in {NoFile, FileOf(Marshal(EarlierState))} :
    InitStore(StateBucket, 0, "generic", Now0, "file", WorkerCount, bk, record)

\* the state manager with its callers: the workers' updates, the periodic
\* save, Stop, and the process crashing and starting again
StateNext ==
  \/ Start
  \/ UpdateProgressCall
  \/ SaveBegin("periodic")
  \/ SaveBegin("stop")
  \/ SaveWriteFile
  \/ SaveRename
  \/ SaveSet
  \/ PeriodicExit
  \/ StopCall
  \/ StopWait
  \/ Crash
  \/ Restart

StateSpec == StateInit /\ [][StateNext]_vars

\* a pool of each kind with one worker more than the pipeline's, on a
\* listing it can process without the sender
PoolsInit ==
  \E kind \in {"http", "file", "tcp"} :
    \E b \in (IF kind = "http" THEN {WatermarkBucket}
              ELSE {WatermarkBucket, PipelineBucket}) :
      InitPool(b, WatermarkScans, "generic", Now0, kind, WorkerCount + 1)

\* the scanner, the workers of the pool in use and the watermark
PoolsNext ==
  \/ ScanTick
  \/ poolKind = "http" /\ AckJob
  \/ \E w \in Workers : poolKind = "http" /\ WorkerTake(w)
  \/ \E w \in Workers : poolKind = "http" /\ WorkerScan(w)
  \/ \E w \in Workers : PoolWorkerTake(w)
  \/ \E w \in Workers : processJob(w)

PoolsSpec == PoolsInit /\ [][PoolsNext]_vars

\* the scanner, the download workers and the watermark
WatermarkNext ==
  \/ ClockTick
  \/ ScanTick
  \/ ScanTickListError
  \/ AckJob
  \/ \E w \in Workers : WorkerTake(w)
  \/ \E w \in Workers : WorkerScan(w)

\* the whole pipeline, with its shutdown
Next ==
  \/ ScanTick
  \/ AckJob
  \/ Shutdown
  \/ \E w \in Workers : WorkerTake(w)
  \/ \E w \in Workers : WorkerExit(w)
  \/ \E w \in Workers : WorkerScan(w)
  \/ \E w \in Workers : WorkerSendLine(w)
  \/ BatcherRecv
  \/ BatcherTick
  \/ BatcherClosed
  \/ BatcherFlush
  \/ \E s \in Senders : SenderRecv(s)
  \/ \E s \in Senders : SenderResponse(s)
  \/ HTTPPoolStopChan
  \/ HTTPPoolStopClose
  \/ HTTPPoolStopWait
  \/ HTTPSenderStop

Spec == Init /\ [][Next]_vars

\* the scanner, the download workers and the watermark at a fixed time
ZscalerNext ==
  \/ ScanTick
  \/ AckJob
  \/ \E w \in Workers : WorkerTake(w)
  \/ \E w \in Workers : WorkerScan(w)

ZscalerSpec == ZscalerInit /\ [][ZscalerNext]_vars

\* the forwarding path alone: scan, download, batch, POST and the shutdown,
\* with the watermark left where it is
ForwardNext ==
  \/ ScanTick
  \/ Shutdown
  \/ \E w \in Workers : WorkerTake(w)
  \/ \E w \in Workers : WorkerExit(w)
  \/ \E w \in Workers : WorkerScan(w)
  \/ \E w \in Workers : WorkerSendLine(w)
  \/ BatcherRecv
  \/ BatcherTick
  \/ BatcherClosed
  \/ BatcherFlush
  \/ \E s \in Senders : SenderRecv(s)
  \/ \E s \in Senders : SenderResponse(s)
  \/ HTTPPoolStopChan
  \/ HTTPPoolStopClose
  \/ HTTPPoolStopWait
  \/ HTTPSenderStop

ForwardSpec == Init /\ [][ForwardNext]_vars

WatermarkSpec == WatermarkInit /\ [][WatermarkNext]_vars

\* one object whose lines differ in length
SenderBucket ==
  << [day |-> 1, ts |-> DayLen + 30, seq |-> 1, valid |-> TRUE,
      lines |-> << <<"a">>, <<"a", "a", "a">>, <<"a">> >>] >>

\* a sender with one worker more than configured in the pipeline runs, for
\* one endpoint or two, with a metrics client; one job. The sinks of a run
\* answer with a 2xx, or else with a 503 without a body, or with a 503 whose
\* body names a timeout, or they refuse the connection.
SenderInit ==
  \E endpoints \in {SubSeq(Endpoints, 1, 1), Endpoints},
     failure \in {Reply(503, << >>, << >>),
                  Reply(503, <<"u", "p", "s", "t", "r", "e", "a", "m", " ", "t", "i", "m", "e", "o", "u", "t">>, << >>),
                  Reply(0, << >>, <<"d", "i", "a", "l", " ", "t", "c", "p", ":", " ", "c", "o", "n", "n", "e", "c", "t", "i", "o", "n", " ", "r", "e", "f", "u", "s", "e", "d">>)} :
    InitConfig(SenderBucket, 1, "generic", Now0, "http", 1, "file", NoFile,
               [endpoints |-> endpoints, workers |-> HTTPWorkers + 1,
                batchLines |-> BatchLines, batchBytes |-> BatchBytes,
                metricsClient |-> TRUE],
               <<[Name |-> "generic", FilenamePattern |-> <<"*">>,
                  SkipHeaderLines |-> 0, ContentType |-> ""]>>,
               {Reply(200, << >>, << >>), failure})

\* the running pipeline from the job queue to the sinks, without shutdown and
\* without the state update
DeliveryNext ==
  \/ SubmitJob
  \/ \E w \in Workers : WorkerTake(w)
  \/ \E w \in Workers : WorkerScan(w)
  \/ \E w \in Workers : WorkerSendLine(w)
  \/ BatcherRecv
  \/ BatcherTick
  \/ BatcherFlush
  \/ \E s \in Senders : SenderRecv(s)
  \/ \E s \in Senders : SenderResponse(s)

SenderSpec == SenderInit /\ [][DeliveryNext]_vars

\* every goroutine that can take a step eventually takes one
FairSpec ==
  /\ Spec
  /\ WF_vars(HTTPPoolStopChan \/ HTTPPoolStopClose \/ HTTPPoolStopWait \/ HTTPSenderStop)
  /\ WF_vars(BatcherRecv \/ BatcherTick \/ BatcherClosed \/ BatcherFlush)
  /\ \A s \in 1..HTTPWorkers : WF_vars(SenderRecv(s) \/ SenderResponse(s))
  /\ \A w \in 1..WorkerCount :
       WF_vars(WorkerTake(w) \/ WorkerExit(w) \/ WorkerScan(w) \/ WorkerSendLine(w))

\* the pipeline with one object that has a line for every place a line can
\* wait in (each sender worker, each slot of the batch queue, the batcher,
\* each slot of the line buffer) and one more
StallInit ==
  InitWith(<< [day |-> 1, ts |-> DayLen + 30, seq |-> 1, valid |-> TRUE,
               lines |-> [i \in 1..(3 * HTTPWorkers + BufferSize + 2) |-> <<"a">>]] >>, 1)

\* the pipeline with an HTTP stage that may stall: a sink need not ever
\* answer, so no sender worker is bound to take a step
StallSpec ==
  /\ StallInit
  /\ [][Next]_vars
  /\ WF_vars(HTTPPoolStopChan \/ HTTPPoolStopClose \/ HTTPPoolStopWait \/ HTTPSenderStop)
  /\ WF_vars(BatcherRecv \/ BatcherTick \/ BatcherClosed \/ BatcherFlush)
  /\ \A w \in 1..WorkerCount :
       WF_vars(WorkerTake(w) \/ WorkerExit(w) \/ WorkerScan(w) \/ WorkerSendLine(w))

\* ------------------------------------------------------------ properties
\* a job of the object is queued or in the hands of a worker
Pending(o) ==
  \/ o \in Range(jobQueue)
  \/ \E w \in Workers : wpc[w] \in {"scan", "send"} /\ wjob[w] = o

\* no later scan can emit the object: its timestamp is below the floor that
\* every later scan starts from
BelowFloor(o) == bucket[o].ts < state.ts

\* C1: at-least-once delivery. A line that was forwarded to the line buffer,
\* of an object for which the watermark was advanced and which no scan will
\* emit again, has been accepted by a sink with 2xx or is still on its way
\* through the sender: a failed POST does not lose it for good.
C1_AtLeastOnce ==
  \A l \in forwarded :
    (l[1] \in acked /\ BelowFloor(l[1]) /\ ~Pending(l[1]))
      => (l \in accepted \/ l \in InSender)

\* C2: last_processed_timestamp never decreases, and right after an
\* UpdateProgress(ts, ...) call the stored timestamp is at least ts, also
\* when ts is lower than the stored one.
C2_TimestampMonotone ==
  [][/\ state'.ts >= state.ts
     /\ (state'.files # state.files => state'.ts >= lastCall'.ts)]_vars

\* an UpdateProgress call with a timestamp lower than the stored one was made
C2_Witness == state.files >= 2 /\ lastCall.ts < state.ts

\* C3: once HTTPSender.Stop is called it returns.
C3_StopReturns == (supPc = "cancel") ~> (supPc = "stopped")

\* C4: graceful shutdown drains. Every line that is inside the sender when
\* HTTPSender.Stop is called has been POSTed to a sink or is still on its way
\* to one: none is dropped because of the shutdown.
C4_ShutdownDrains == \A l \in atShutdown : l \in posted \/ l \in InSender

C7_NoReEmit ==
  \A i \in 1..Len(lastScan.jobs) : lastScan.jobs[i] \notin lastScan.acked

\* C8: an object whose job failed stays eligible for a later scan (it is
\* queued again already, or its timestamp is not below the scan floor),
\* whatever other jobs succeeded in the meantime.
C8_FailedRetried == \A o \in failed : Pending(o) \/ ~BelowFloor(o)

\* the scan that filters on last_timestamp alone, without StartAfter
ScanByTimestamp(fromTimestamp, nowv) == Scan(fromTimestamp, NoKey, nowv)

\* C9: the scan with the StartAfter shortcut emits the same not-yet-processed
\* objects as the scan that filters on last_timestamp alone.
C9_StartAfterOnlySkipsProcessed ==
  lastScan.n > 0 =>
  {o \in Range(lastScan.jobs) : o \notin lastScan.acked}
    = {o \in Range(ScanByTimestamp(lastScan.from, lastScan.now)) : o \notin lastScan.acked}

C11_ZscalerFastPath ==
  \A o \in Objs :
    ( /\ logFormat = "zscaler"
      /\ bucket[o].key = ScenarioKey
      /\ lastScan.n = 1
      /\ lastScan.from = 0
      /\ EndTimestamp(lastScan.now) = ScenarioEnd )
    => /\ Cardinality({i \in 1..Len(lastScan.jobs) : lastScan.jobs[i] = o}) = 1
       /\ ParseTimestamp(o) = 1760305292
       /\ (lastCall.key = o => state.ts = 1760305292 /\ state.key = o)

\* C12: a scan during which the listing of any page of any partition fails
\* returns no job at all, whatever it had collected from earlier pages and
\* partitions, and leaves the watermark as it was.
C12_ListErrorAborts ==
  [][lastListError'.n # lastListError.n =>
       /\ lastListError'.jobs = << >>
       /\ state' = state
       /\ dirty' = dirty
       /\ jobQueue' = jobQueue]_vars

\* a scan failed on a page after it had collected jobs from earlier pages
C12_Witness ==
  /\ lastListError.n > 0
  /\ ScanCollected(lastListError.from, lastListError.key, lastListError.now,
                   lastListError.request[1], lastListError.request[2]) # << >>

\* C13: Submit on a running pool does not wait for room. It returns true
\* exactly when it appended its job to the job queue; on a queue that holds
\* QueueSize jobs it returns false and the queue stays as it is. So after
\* the Submit calls of a tick the queue is the old queue followed by the
\* accepted jobs, in order, and never longer than QueueSize.
C13_SubmitNonBlocking ==
  [][lastScan'.n # lastScan.n =>
       LET jobs == lastScan'.jobs
           ok   == lastScan'.ok
           before(i) == Len(jobQueue) + Cardinality({j \in 1..(i - 1) : ok[j]})
           taken == {i \in 1..Len(jobs) : ok[i]}
       IN  /\ Len(ok) = Len(jobs)
           /\ Len(jobQueue') <= QueueSize
           /\ Len(jobQueue') = Len(jobQueue) + Cardinality(taken)
           /\ SubSeq(jobQueue', 1, Len(jobQueue)) = jobQueue
           /\ \A i \in 1..Len(jobs) :
                /\ ok[i] <=> before(i) < QueueSize
                /\ ok[i] => jobQueue'[before(i) + 1] = jobs[i]]_vars

\* a tick met a full queue: a Submit returned false, an earlier one true
C13_Witness ==
  /\ \E i \in 1..Len(lastScan.ok) : ~lastScan.ok[i]
  /\ \E i \in 1..Len(lastScan.ok) : lastScan.ok[i]

\* the jobs finished without error whose state update has not been applied
PendingUpdates == SumSeq(completed)

\* the workers that are between two jobs
BetweenJobs == {w \in Workers : wpc[w] \in {"idle", "exited"}}

\* C14: an HTTP-pool worker that finished a job without error does not take
\* its next job before UpdateProgress was applied for the finished one: every
\* job whose state update is pending belongs to a worker that has not taken
\* its next job, so there are never more pending updates than workers
\* between two jobs.
C14_WorkerUpdatesWatermark == PendingUpdates <= Cardinality(BetweenJobs)

\* worker w ends the processing of a job with an error in this step
JobFails(w) ==
  /\ wpc'[w] = "idle"
  /\ filesProcessed' = filesProcessed
  /\ \/ wpc[w] \in {"scan", "process"}
     \/ wpc[w] = "idle" /\ wpc' = wpc /\ Len(jobQueue') < Len(jobQueue)

\* C15: in every pool, a step in which the processing of a job fails calls
\* no UpdateProgress (state and dirty flag stay as they are), grows the error
\* counter by exactly one, leaves the worker ready for its next job and
\* leaves every other worker as it was; the error counter changes in no
\* other step.
C15_FailedJobCounted ==
  [][/\ \A w \in Workers :
          JobFails(w) =>
            /\ errors' = errors + 1
            /\ state' = state
            /\ dirty' = dirty
            /\ lastCall' = lastCall
            /\ wjob'[w] = NoKey
            /\ \A v \in Workers \ {w} :
                 wpc'[v] = wpc[v] /\ wjob'[v] = wjob[v] /\ widx'[v] = widx[v]
     /\ errors' # errors => \E w \in Workers : JobFails(w)]_vars

\* a job failed in a pool while another worker was busy with a job of its own
C15_Witness ==
  /\ errors > 0
  /\ failed # {}
  /\ \E v \in Workers : wjob[v] # NoKey /\ wjob[v] \notin failed

\* C16: a Save call on a clean state writes nothing and returns; a Save call
\* on a dirty state goes on to write; the dirty flag is cleared only in a
\* step that puts the current state at the state path; a Save that returns an
\* error leaves the flag set and the in-memory state as it was.
C16_SaveKeepsDirtyOnError ==
  [][/\ (saveCount' # saveCount /\ ~dirty) =>
          disk' = disk /\ savePc' = "none" /\ ~dirty' /\ state' = state
     /\ (saveCount' # saveCount /\ dirty) =>
          savePc' \in {"write", "set"} /\ saveData' = Marshal(state) /\ dirty'
     /\ (dirty /\ ~dirty' /\ ~crashed') =>
          /\ disk'[FilePath] = FileOf(Marshal(state))
          /\ state' = state
          /\ ~lastSaveErr'
     /\ (savePc # "none" /\ savePc' = "none" /\ ~crashed' /\ lastSaveErr') =>
          dirty /\ dirty' /\ state' = state
     /\ (savePc # "none" /\ savePc' = "none" /\ ~crashed' /\ ~lastSaveErr') =>
          ~dirty'
    ]_vars

\* a Save failed, and a later Save of the same process wrote the state
C16_Witness ==
  /\ ~crashed
  /\ restarts = 0
  /\ ioErrors > 0
  /\ calls > 0
  /\ ~dirty
  /\ disk[FilePath] = FileOf(Marshal(state))

\* the persisted state holds at least what the given state holds
Includes(p, s) == p.ts >= s.ts /\ p.files >= s.files /\ p.bytes >= s.bytes

\* Stop returns in this step
StopReturns == stopPc # "returned" /\ stopPc' = "returned"

Complete(file) ==
  \/ ~file.exists
  \/ /\ WellFormed(file.data)
     /\ file.data = Marshal(Unmarshal(file.data).st)

\* C18: with the file backend the state path holds nothing or one state in
\* full at every moment, crashes included, and whenever its content changes
\* the new content is the current in-memory state in full.
C18_StatePathNeverPartial ==
  /\ [](backend = "file" => Complete(disk[FilePath]))
  /\ [][(backend = "file" /\ disk'[FilePath] # disk[FilePath]) =>
          disk'[FilePath] = FileOf(Marshal(state))]_vars

\* the process crashed inside Save: the temporary file is partly written and
\* the state path still holds the state persisted before
C18_Witness ==
  /\ crashed
  /\ backend = "file"
  /\ disk[TmpPath(FilePath)].exists
  /\ ~WellFormed(disk[TmpPath(FilePath)].data)
  /\ disk[FilePath].exists
  /\ disk[FilePath] = FileOf(Marshal(savedState))

\* C19: a construction that finds no record gives the zero state without
\* error; one that finds a record gives the state that was saved; a read
\* error or a record that does not parse makes the construction fail; a
\* state that was marshalled unmarshals to itself.
C19_LoadRoundTrip ==
  /\ [][restarts' # restarts =>
          /\ lastLoad' = "io" => loadErr'
          /\ (lastLoad' # "io" /\ ~disk[FilePath].exists) =>
               ~loadErr' /\ state' = ZeroState /\ ~dirty'
          /\ (lastLoad' # "io" /\ disk[FilePath].exists) =>
               ~loadErr' /\ state' = savedState /\ ~dirty']_vars
  /\ [](/\ Unmarshal(Marshal(state)) = [err |-> FALSE, st |-> state]
        /\ \A part \in PartWritten(Marshal(state)) :
             NewManager(FileOf(part), FALSE).err)

\* a new process loaded the state that an earlier process had saved after
\* its updates
C19_Witness ==
  /\ restarts > 0
  /\ ~crashed
  /\ lastLoad = "none"
  /\ state = savedState
  /\ state.files >= 2

\* C20: an UpdateProgress call stores its key whatever its timestamp, adds
\* one to the file counter and its byte count to the byte counter, and sets
\* the dirty flag; after any number of calls, interleaved with the saves, the
\* counters have grown by the number of calls and by the sum of their byte
\* counts.
C20_UpdateProgressCounts ==
  /\ [][calls' = calls + 1 =>
          /\ state'.key = lastCall'.key
          /\ state'.files = state.files + 1
          /\ state'.bytes = state.bytes + lastCall'.bytes
          /\ dirty']_vars
  /\ [](~crashed => /\ state.files = base.files + calls
                    /\ state.bytes = base.bytes + callBytes)

\* two calls, the second with a lower timestamp than the stored one: the key
\* is the second call's
C20_Witness ==
  /\ calls = 2
  /\ lastCall.ts < state.ts
  /\ state.key = lastCall.key
  /\ state.bytes = base.bytes + 7

\* an object with a header row, a data row, a line of white space, an empty
\* line and another data row, and one with a JSON object, a line in braces
\* that is no JSON, and a data row
FormatBucket ==
  << [day |-> 1, ts |-> DayLen + 29, seq |-> 1, valid |-> TRUE,
      lines |-> << <<"h">>, <<"a">>, <<" ">>, << >>, <<"b">> >>],
     [day |-> 1, ts |-> DayLen + 30, seq |-> 1, valid |-> TRUE,
      lines |-> << <<"{", "}">>, <<"{", "a", "}">>, <<"c">> >>] >>

\* the pipeline under one of the descriptors (a built-in one, or a
\* user-defined one with its header-skip count and its content type), a job
\* for each object, sinks that accept every batch
FormatInit ==
  \E d \in {[format |-> f, config |-> << >>] : f \in {"zscaler", "cisco_umbrella"}}
            \cup {[format |-> "generic",
                   config |-> <<[Name |-> "generic", FilenamePattern |-> <<"*">>,
                                 SkipHeaderLines |-> n, ContentType |-> c]>>] :
                    n \in 0..MaxSkipHeaderLines, c \in {"", "application/json"}} :
    InitConfig(FormatBucket, Len(FormatBucket), d.format, Now0, "http", 1, "file", NoFile,
               [endpoints |-> Endpoints, workers |-> HTTPWorkers,
                batchLines |-> BatchLines, batchBytes |-> BatchBytes,
                metricsClient |-> FALSE],
               d.config, {Reply(200, << >>, << >>)})

FormatSpec == FormatInit /\ [][DeliveryNext]_vars

\* C21: every POST in flight carries the content type of the active
\* descriptor: application/x-ndjson under zscaler, text/plain under
\* cisco_umbrella, the configured one under a user-defined descriptor
C21_ContentTypeOfDescriptor ==
  \A s \in Senders : spc[s] = "post" => sreq[s].contentType = GetContentType

\* C22: every batch on the batch queue holds at least one line and at most
\* batch_lines lines, and its size (len(line)+1 summed over its lines) is at
\* most batch_bytes plus the size of its last line; the batch queue grows
\* only by a current batch that is not empty, so a timer tick with an empty
\* current batch emits nothing
C22_BatchBounds ==
  /\ [](\A i \in 1..Len(batchChan) :
          LET b == batchChan[i]
          IN  /\ Len(b) >= 1
              /\ Len(b) <= hs.batchLines
              /\ BatchSize(b) <= hs.batchBytes + LineLen(b[Len(b)]) + 1)
  /\ [][/\ Len(batchChan') > Len(batchChan) => currentBatch # << >>
        /\ (bpc = "select" /\ currentBatch = << >> /\ lineChan' = lineChan)
             => bpc' \notin {"flush", "flushExit"}]_vars

\* a batch over batch_bytes is queued, and the batcher waits with an empty
\* current batch, where only the timer can wake it
C22_Witness ==
  /\ \E i \in 1..Len(batchChan) : BatchSize(batchChan[i]) > hs.batchBytes
  /\ bpc = "select" /\ currentBatch = << >> /\ lineChan = << >>

\* the batch-by-bytes scenario: one object of 10 lines of 12 bytes each,
\* batch_bytes = 100, a line
\* bound that these lines do not reach
BytesInit ==
  InitConfig(<< [day |-> 1, ts |-> DayLen + 30, seq |-> 1, valid |-> TRUE,
                 lines |-> [i \in 1..10 |-> [j \in 1..12 |-> "a"]]] >>,
             1, "generic", Now0, "http", 1, "file", NoFile,
             [endpoints |-> Endpoints, workers |-> HTTPWorkers,
              batchLines |-> 11, batchBytes |-> 100,
              metricsClient |-> FALSE],
             <<[Name |-> "generic", FilenamePattern |-> <<"*">>,
                SkipHeaderLines |-> 0, ContentType |-> ""]>>,
             {Reply(200, << >>, << >>)})

\* the flush timer of the scenario fires after the lines were fed: the
\* worker has forwarded the last line and the batcher has taken it
BytesTick ==
  /\ <<1, Len(bucket[1].lines)>> \in forwarded
  /\ lineChan = << >>
  /\ BatcherTick

BytesNext ==
  \/ SubmitJob
  \/ \E w \in Workers : WorkerTake(w)
  \/ \E w \in Workers : WorkerScan(w)
  \/ \E w \in Workers : WorkerSendLine(w)
  \/ BatcherRecv
  \/ BytesTick
  \/ BatcherFlush
  \/ \E s \in Senders : SenderRecv(s)
  \/ \E s \in Senders : SenderResponse(s)

BytesSpec == BytesInit /\ [][BytesNext]_vars

\* lines from..to of the scenario's object, as a batch
LinesFromTo(from, to) == [i \in 1..(to - from + 1) |-> <<1, from + i - 1>>]

\* C23 as stated: in the batch-by-bytes scenario the first batch is flushed
\* right after the 9th line, and the second batch holds only the 10th line
\* and is flushed by the timer
C23_FlushAfterNinth ==
  /\ Len(currentBatch) <= 9
  /\ (bpc = "flush" /\ BatchSize(currentBatch) >= hs.batchBytes)
       => currentBatch = LinesFromTo(1, 9)
  /\ \A i \in 1..Len(batchChan) :
       \/ batchChan[i] = LinesFromTo(1, 9)
       \/ batchChan[i] = LinesFromTo(10, 10) /\ BatchSize(batchChan[i]) < hs.batchBytes

\* C23, amended: the first batch is flushed right after the 8th line (its
\* size is 8 * 13 = 104 >= 100), and the second batch holds the 9th and the
\* 10th line and is flushed by the timer
C23_FlushAfterEighth ==
  /\ Len(currentBatch) <= 8
  /\ (bpc = "flush" /\ BatchSize(currentBatch) >= hs.batchBytes)
       => currentBatch = LinesFromTo(1, 8)
  /\ (bpc = "flush" /\ BatchSize(currentBatch) < hs.batchBytes)
       => currentBatch = LinesFromTo(9, 10)
  /\ \A i \in 1..Len(batchChan) :
       \/ batchChan[i] = LinesFromTo(1, 8)
       \/ batchChan[i] = LinesFromTo(9, 10) /\ BatchSize(batchChan[i]) < hs.batchBytes

\* both batches of the scenario have been flushed and the second one is on
\* the batch queue
C23_Witness ==
  /\ Range(LinesFromTo(1, 8)) \subseteq forwarded
  /\ (Range(LinesFromTo(1, 8)) \subseteq accepted
        \/ \E i \in 1..Len(batchChan) : batchChan[i] = LinesFromTo(1, 8)
        \/ \E s \in Senders : sbatch[s] = LinesFromTo(1, 8))
  /\ \E i \in 1..Len(batchChan) : batchChan[i] = LinesFromTo(9, 10)

\* C24: the POST of sender worker i (the i-th started, counted from 0) goes
\* to endpoints[i mod |endpoints|], for every batch it takes, whatever was
\* sent before
C24_StaticRoundRobin ==
  \A s \in Senders :
    spc[s] = "post" =>
      sreq[s].endpoint = hs.endpoints[((s - 1) % Len(hs.endpoints)) + 1]

\* a worker whose index wraps around the endpoint list posts a batch after
\* other batches were handled
C24_Witness ==
  \E s \in Senders :
    /\ s - 1 >= Len(hs.endpoints)
    /\ spc[s] = "post"
    /\ sentBatches + sendErrors >= 1

\* C25: when a POST fails (the sink did not accept the batch), the batch is
\* gone: it is not put back on the batch queue and no worker holds it, the
\* sender's error count grows by one, sent-lines and sent-batches stay, and
\* the worker is back at its receive; and a line that has left the sender
\* without being accepted never enters it again
C25_FailedBatchDropped ==
  [][/\ \A s \in Senders :
          (/\ spc[s] = "post"
           /\ spc'[s] # "post"
           /\ Range(sbatch[s]) \cap accepted' = {})
          => /\ sendErrors' = sendErrors + 1
             /\ sentLines' = sentLines
             /\ sentBatches' = sentBatches
             /\ batchChan' = batchChan
             /\ spc'[s] = "recv"
             /\ sbatch' = [sbatch EXCEPT ![s] = << >>]
     /\ \A l \in forwarded :
          (l \notin InSender /\ l \notin accepted) => l \notin InSender']_vars

\* after a failed batch and an accepted one a worker posts another batch
C25_Witness ==
  /\ sendErrors >= 1
  /\ sentBatches >= 1
  /\ \E s \in Senders : spc[s] = "post"

\* C26: in a run whose sinks answer a batch with a 2xx or with a 5xx, whatever
\* the body of the 5xx, every batch that is not accepted adds one to the
\* server-error counter and one to the total HTTP-error counter and leaves
\* the timeout and network counters alone; the batch is dropped and the
\* worker is back at its receive
C26_ServerErrorCounted ==
  [][\A s \in Senders :
       (/\ hs.metricsClient
        /\ \A r \in replies : r.status \in 200..299 \/ r.status \in 500..599
        /\ spc[s] = "post"
        /\ spc'[s] # "post"
        /\ Range(sbatch[s]) \cap accepted' = {})
       => /\ metrics'.HTTPServerErrors = metrics.HTTPServerErrors + 1
          /\ metrics'.HTTPErrors = metrics.HTTPErrors + 1
          /\ metrics'.HTTPTimeoutErrors = metrics.HTTPTimeoutErrors
          /\ metrics'.HTTPNetworkErrors = metrics.HTTPNetworkErrors
          /\ batchChan' = batchChan
          /\ sbatch'[s] = << >>
          /\ spc'[s] = "recv"]_vars

\* C29: under a descriptor with header_skip = N (N = 1 for cisco_umbrella,
\* the configured skip_header_lines for a user-defined descriptor, none for
\* zscaler) none of the first N lines of a file is passed to SendLine, every
\* later line that is not blank has been passed once the file is processed,
\* and the lines of a file wait in the line queue in the order of the file
C29_HeaderSkipDropsFirstN ==
  LET N == CASE logFormat = "cisco_umbrella" -> 1
             [] logFormat = "zscaler" -> 0
             [] OTHER -> formatConfig.SkipHeaderLines
  IN  /\ \A l \in forwarded : l[2] > N
      /\ \A o \in 1..Len(bucket) :
           completed[o] > 0 =>
             \A i \in (N + 1)..Len(bucket[o].lines) :
               TrimSpace(bucket[o].lines[i]) # << >> => <<o, i>> \in forwarded
      /\ \A i, j \in 1..Len(lineChan) :
           (i < j /\ lineChan[i][1] = lineChan[j][1]) => lineChan[i][2] < lineChan[j][2]

\* C30: no line passed to SendLine is empty or made of white space only,
\* whatever the active descriptor, and a file that was processed has had
\* each of its other lines after the header passed to SendLine
C30_NoBlankLineSent ==
  /\ \A l \in forwarded : TrimSpace(bucket[l[1]].lines[l[2]]) # << >>
  /\ \A o \in 1..Len(bucket) :
       completed[o] > 0 =>
         \A i \in 2..Len(bucket[o].lines) :
           TrimSpace(bucket[o].lines[i]) # << >> => <<o, i>> \in forwarded

\* ------------------------------------------------- detection on its own
\* a call of DetectFormat, by the scanner in auto-detection mode or by any
\* other caller, for one of: a zscaler file name, a cisco_umbrella file name,
\* a name that is neither, a .csv.gz name with too few parts; and one of: no
\* sample, a JSON object, a CSV sample with a cisco_umbrella header, a line
\* of text
Detect ==
  /\ \E filename \in {<<"1", "_", "2", "_", "3", "_", "4", ".", "g", "z">>,
                       <<"1", "-", "2", "-", "3", "-", "4", "-", "5", "-", "a",
                         ".", "c", "s", "v", ".", "g", "z">>,
                       <<"u", ".", "t", "x", "t">>,
                       <<"u", ".", "c", "s", "v", ".", "g", "z">>},
        contentSample \in {<< >>,
                            << <<"{", "}">> >>,
                            << <<"T", "i", "m", "e", "s", "t", "a", "m", "p", ",",
                                 "D", "o", "m", "a", "i", "n">>, <<"a", ",", "b">> >>,
                            << <<"x">> >>} :
       \E format \in DetectFormat(registry, filename, contentSample) :
         detected' = [filename |-> filename, sample |-> contentSample, format |-> format]
  /\ UNCHANGED <<bucket, logFormat, poolKind, workerCount, hs, formatConfig, replies,
                 formatConfigs, registry, now, tcpVars, apiVars, sinkVars, storeVars, scanBudget, state,
                 dirty, poolVars, senderVars, supPc, panicked, histVars>>

\* a registry of the built-in formats and of up to MaxFormats user-defined
\* ones, drawn from: a format for every .csv.gz file, a format that has the
\* name of a built-in one, a format for some zscaler file names
DetectInit ==
  \E k \in 0..MaxFormats :
    \E fcs \in [1..k -> {[Name |-> "custom",
                           FilenamePattern |-> <<"*", ".", "c", "s", "v", ".", "g", "z">>,
                           SkipHeaderLines |-> 1, ContentType |-> ""],
                          [Name |-> "zscaler",
                           FilenamePattern |-> <<"*", ".", "t", "x", "t">>,
                           SkipHeaderLines |-> 0, ContentType |-> "application/json"],
                          [Name |-> "json",
                           FilenamePattern |-> <<"*", "_", "4", ".", "g", "z">>,
                           SkipHeaderLines |-> 0, ContentType |-> "text/csv"]}] :
      InitConfig(PipelineBucket, 0, "auto", Now0, "http", 1, "file", NoFile,
                 [endpoints |-> Endpoints, workers |-> HTTPWorkers,
                  batchLines |-> BatchLines, batchBytes |-> BatchBytes,
                  metricsClient |-> FALSE],
                 fcs, Outcomes)

DetectSpec == DetectInit /\ [][Detect]_vars

\* C27: the descriptor DetectFormat returns is the first one in registration
\* order (the user-defined ones in the order of the configuration, then
\* zscaler, then cisco_umbrella) whose filename predicate matches and, when
\* none matches by filename, the first one in that order whose content
\* predicate matches, so a user-defined descriptor wins over a built-in one
\* that also matches; and a call with the arguments of the call before it
\* returns the same descriptor
C27_FirstInRegistrationOrder ==
  /\ [](LET order == [i \in 1..Len(formatConfigs) |-> NewGenericFormat(formatConfigs[i])]
                       \o BuiltIns
            byFilename == {i \in 1..Len(order) :
                             DetectFromFilename(order[i], detected.filename)}
            byContent == {i \in 1..Len(order) :
                            DetectFromContent(order[i], detected.sample)}
            first(S) == order[CHOOSE i \in S : \A j \in S : i <= j]
        IN  detected.format # NoFormat =>
              IF byFilename # {} THEN detected.format = first(byFilename)
              ELSE byContent # {} => detected.format = first(byContent))
  /\ [][(/\ detected.format # NoFormat
          /\ detected'.filename = detected.filename
          /\ detected'.sample = detected.sample)
         => detected'.format = detected.format]_vars

\* C28: a call of DetectFormat in which no descriptor matches by filename and
\* none by content (no sample is one such case) returns the default
\* descriptor of the configuration, the first format defined: the first
\* user-defined one, zscaler where there is none; the call never returns nil
C28_DefaultWhenNoMatch ==
  LET formats == {registry[n] : n \in DOMAIN registry}
  IN  (/\ detected.filename # << >>
       /\ \A f \in formats : ~DetectFromFilename(f, detected.filename)
       /\ \A f \in formats : ~DetectFromContent(f, detected.sample))
      => /\ detected.format # NoFormat
         /\ detected.format = IF formatConfigs = << >> THEN BuiltIns[1]
                               ELSE NewGenericFormat(formatConfigs[1])

C32_PoolStopReturns == (supPc = "poolStop") ~> (supPc \notin {"poolStop", "poolWait"})

\* ------------------------------------------------- scans over several days
\* a scanner over three day partitions, started with a watermark found at
\* the state path (none, or one of three earlier days and times, with or
\* without a last key) at a time that puts the end of the window into the
\* second or the third day
PrefixInit ==
  \E from \in {0, DayLen - 25, DayLen + 15, 2 * DayLen + 20},
     key \in {NoKey, 2},
     end \in {Upper0, 2 * DayLen + 10} :
    InitStore(<< [day |-> 0, ts |-> DayLen - 20, seq |-> 1, valid |-> TRUE, lines |-> << >>],
                 [day |-> 0, ts |-> DayLen - 10, seq |-> 1, valid |-> TRUE, lines |-> << >>],
                 [day |-> 1, ts |-> DayLen + 10, seq |-> 1, valid |-> TRUE, lines |-> << >>],
                 [day |-> 1, ts |-> DayLen + 20, seq |-> 1, valid |-> TRUE, lines |-> << >>],
                 [day |-> 1, ts |-> 0, seq |-> 0, valid |-> FALSE, lines |-> << >>],
                 [day |-> 2, ts |-> 2 * DayLen + 5, seq |-> 1, valid |-> TRUE,
                  lines |-> << >>] >>,
              1, "generic", end + DelayWindow, "http", WorkerCount, "file",
              IF from = 0 /\ key = NoKey THEN NoFile
              ELSE FileOf(Marshal([ts |-> from, key |-> key, files |-> 1, bytes |-> 0])))

PrefixSpec == PrefixInit /\ [][WatermarkNext]_vars

\* C33: the prefixes of a scan are the day partitions from the day of the
\* lower end of its window to the day of the upper end, each once and in
\* ascending order (none when the day of the lower end is the later one), and
\* the jobs of the scan come partition by partition in that order, in the
\* order of the listing inside a partition
C33_PrefixPerDay ==
  LET upper == lastScan.now - DelayWindow
      lower == IF lastScan.from = 0 THEN upper - 60 ELSE lastScan.from
      prefixes == generatePrefixes(lower, upper)
      jobs == lastScan.jobs
  IN  lastScan.n > 0 =>
        /\ \A d \in DayOf(lower)..DayOf(upper) :
             Cardinality({i \in 1..Len(prefixes) : prefixes[i] = d}) = 1
        /\ \A i \in 1..Len(prefixes) : prefixes[i] \in DayOf(lower)..DayOf(upper)
        /\ \A i, j \in 1..Len(prefixes) : i < j => prefixes[i] < prefixes[j]
        /\ \A i \in 1..Len(jobs) : bucket[jobs[i]].day \in Range(prefixes)
        /\ \A i, j \in 1..Len(jobs) :
             i < j => \/ bucket[jobs[i]].day < bucket[jobs[j]].day
                      \/ bucket[jobs[i]].day = bucket[jobs[j]].day /\ jobs[i] < jobs[j]

\* a scan over three days returned two jobs of one partition and a job of a
\* later one
C33_Witness ==
  /\ lastScan.n > 0
  /\ DayOf(lastScan.now - DelayWindow) - DayOf(lastScan.from) = 2
  /\ \E i, j, k \in 1..Len(lastScan.jobs) :
       /\ i < j /\ j < k
       /\ bucket[lastScan.jobs[i]].day = bucket[lastScan.jobs[j]].day
       /\ bucket[lastScan.jobs[j]].day < bucket[lastScan.jobs[k]].day

\* ------------------------------------------------------ TCP connection pool
nonTcpVars == <<bucket, logFormat, poolKind, workerCount, hs, formatConfig, replies,
               formatConfigs, registry, detected, now, apiVars, sinkVars, storeVars,
               scanBudget, state, dirty, poolVars, senderVars, supPc, histVars>>

\* Pool.Close, step by step
Close(c) ==
  \* Pool.Close, under p.mu: return nil when closed is set, set it otherwise
  \/ /\ ~panicked
     /\ closePc[c] = "idle"
     /\ IF pool.closed
        THEN /\ closePc' = [closePc EXCEPT ![c] = "nil"]
             /\ pool' = pool
        ELSE /\ closePc' = [closePc EXCEPT ![c] = "stop"]
             /\ pool' = [pool EXCEPT !.closed = TRUE]
     /\ UNCHANGED <<connClosed, dialed, held, getPc, getConn, getEntry, putPc, putConn,
                    putEntry, hc, panicked, nonTcpVars>>
  \* close(p.stopCh)
  \/ /\ ~panicked
     /\ closePc[c] = "stop"
     /\ closePc' = [closePc EXCEPT ![c] = "wait"]
     /\ pool' = [pool EXCEPT !.stopCh = TRUE]
     /\ panicked' = pool.stopCh
     /\ UNCHANGED <<connClosed, dialed, held, getPc, getConn, getEntry, putPc, putConn,
                    putEntry, hc, nonTcpVars>>
  \* <-p.doneCh, then close(p.conns)
  \/ /\ ~panicked
     /\ closePc[c] = "wait"
     /\ pool.doneCh
     /\ closePc' = [closePc EXCEPT ![c] = "drain"]
     /\ pool' = [pool EXCEPT !.connsClosed = TRUE]
     /\ panicked' = pool.connsClosed
     /\ UNCHANGED <<connClosed, dialed, held, getPc, getConn, getEntry, putPc, putConn,
                    putEntry, hc, nonTcpVars>>
  \* for conn := range p.conns { conn.Close() }, then return nil
  \/ /\ ~panicked
     /\ closePc[c] = "drain"
     /\ IF pool.conns # << >>
        THEN /\ pool' = [pool EXCEPT !.conns = Tail(pool.conns)]
             /\ connClosed' = connClosed \cup {Head(pool.conns)}
             /\ closePc' = closePc
        ELSE /\ closePc' = [closePc EXCEPT ![c] = "nil"]
             /\ UNCHANGED <<pool, connClosed>>
     /\ UNCHANGED <<dialed, held, getPc, getConn, getEntry, putPc, putConn, putEntry, hc,
                    panicked, nonTcpVars>>

\* Pool.Get, step by step
Get ==
  \* Pool.Get, under p.mu: an error when closed is set
  \/ /\ ~panicked
     /\ getPc \in {"idle", "err", "ok"}
     /\ getEntry' = pool.closed
     /\ getConn' = 0
     /\ getPc' = IF pool.closed THEN "err" ELSE "select"
     /\ UNCHANGED <<pool, connClosed, dialed, held, closePc, putPc, putConn, putEntry, hc,
                    panicked, nonTcpVars>>
  \* select { case conn := <-p.conns; case <-time.After(5 * time.Second) }:
  \* a connection of the channel; nil at once from the closed and empty
  \* channel, on which isConnAlive calls conn.SetReadDeadline; the timeout
  \* while the channel is open and empty
  \/ /\ ~panicked
     /\ getPc = "select"
     /\ IF pool.conns # << >>
        THEN /\ getConn' = Head(pool.conns)
             /\ pool' = [pool EXCEPT !.conns = Tail(pool.conns)]
             /\ getPc' = "alive"
             /\ panicked' = FALSE
        ELSE /\ getConn' = 0
             /\ pool' = pool
             /\ getPc' = IF pool.connsClosed THEN "panic" ELSE "err"
             /\ panicked' = pool.connsClosed
     /\ UNCHANGED <<connClosed, dialed, held, closePc, getEntry, putPc, putConn, putEntry,
                    hc, nonTcpVars>>
  \* if !p.isConnAlive(conn) { conn.Close(); createConnection } and the return
  \/ /\ ~panicked
     /\ getPc = "alive"
     /\ \E alive \in isConnAlive(getConn) :
          IF alive
          THEN /\ held' = held \cup {getConn}
               /\ getPc' = "ok"
               /\ UNCHANGED <<connClosed, dialed, getConn>>
          ELSE /\ connClosed' = connClosed \cup {getConn}
               /\ \E newConn \in createConnection :
                    /\ getConn' = newConn
                    /\ getPc' = IF newConn = 0 THEN "err" ELSE "ok"
                    /\ dialed' = IF newConn = 0 THEN dialed ELSE newConn
                    /\ held' = IF newConn = 0 THEN held ELSE held \cup {newConn}
     /\ UNCHANGED <<pool, closePc, getEntry, putPc, putConn, putEntry, hc, panicked,
                    nonTcpVars>>

\* Pool.Put, step by step; the caller gives a connection it got from Get
Put ==
  \* Pool.Put(conn), under p.mu: conn.Close() and return when closed is set
  \/ /\ ~panicked
     /\ putPc \in {"idle", "done"}
     /\ \E conn \in held :
          /\ held' = held \ {conn}
          /\ putConn' = conn
          /\ putEntry' = pool.closed
          /\ IF pool.closed
             THEN /\ connClosed' = connClosed \cup {conn}
                  /\ putPc' = "done"
             ELSE /\ connClosed' = connClosed
                  /\ putPc' = "alive"
     /\ UNCHANGED <<pool, dialed, closePc, getPc, getConn, getEntry, hc, panicked,
                    nonTcpVars>>
  \* if !p.isConnAlive(conn): conn.Close() and a replacement, if one can be made
  \/ /\ ~panicked
     /\ putPc = "alive"
     /\ \E alive \in isConnAlive(putConn) :
          IF alive
          THEN /\ putPc' = "send"
               /\ UNCHANGED <<connClosed, dialed, putConn>>
          ELSE /\ connClosed' = connClosed \cup {putConn}
               /\ \E newConn \in createConnection :
                    /\ putConn' = newConn
                    /\ putPc' = IF newConn = 0 THEN "done" ELSE "send"
                    /\ dialed' = IF newConn = 0 THEN dialed ELSE newConn
     /\ UNCHANGED <<pool, held, closePc, getPc, getConn, getEntry, putEntry, hc, panicked,
                    nonTcpVars>>
  \* select { case p.conns <- conn: default: conn.Close() }: the send case is
  \* taken on a closed channel, and panics
  \/ /\ ~panicked
     /\ putPc = "send"
     /\ IF pool.connsClosed
        THEN /\ panicked' = TRUE
             /\ putPc' = "panic"
             /\ UNCHANGED <<pool, connClosed>>
        ELSE /\ panicked' = FALSE
             /\ putPc' = "done"
             /\ IF Len(pool.conns) < pool.size
                THEN /\ pool' = [pool EXCEPT !.conns = Append(pool.conns, putConn)]
                     /\ connClosed' = connClosed
                ELSE /\ pool' = pool
                     /\ connClosed' = connClosed \cup {putConn}
     /\ UNCHANGED <<dialed, held, closePc, getPc, getConn, getEntry, putConn, putEntry, hc,
                    nonTcpVars>>

\* Pool.healthChecker, step by step
healthChecker ==
  \* healthChecker, case <-ticker.C: the loop over the pool begins
  \/ /\ ~panicked
     /\ hc.pc = "select"
     /\ hc' = [pc |-> "recv", i |-> 0, conn |-> 0]
     /\ UNCHANGED <<pool, connClosed, dialed, held, closePc, getPc, getConn, getEntry,
                    putPc, putConn, putEntry, panicked, nonTcpVars>>
  \* healthChecker, case <-p.stopCh: return, and the deferred close(p.doneCh)
  \/ /\ ~panicked
     /\ hc.pc = "select"
     /\ pool.stopCh
     /\ hc' = [pc |-> "exit", i |-> 0, conn |-> 0]
     /\ pool' = [pool EXCEPT !.doneCh = TRUE]
     /\ UNCHANGED <<connClosed, dialed, held, closePc, getPc, getConn, getEntry, putPc,
                    putConn, putEntry, panicked, nonTcpVars>>
  \* select { case conn := <-p.conns: ...; default: } of round i: the
  \* connection to put back is the one taken, or a new one for a dead one
  \/ /\ ~panicked
     /\ hc.pc = "recv"
     /\ IF hc.i >= pool.size
        THEN /\ hc' = [pc |-> "select", i |-> 0, conn |-> 0]
             /\ UNCHANGED <<pool, connClosed, dialed, panicked>>
        ELSE IF pool.conns = << >>
        THEN /\ hc' = IF pool.connsClosed THEN [hc EXCEPT !.pc = "panic"]
                      ELSE [hc EXCEPT !.i = hc.i + 1]
             /\ panicked' = pool.connsClosed
             /\ UNCHANGED <<pool, connClosed, dialed>>
        ELSE /\ pool' = [pool EXCEPT !.conns = Tail(pool.conns)]
             /\ panicked' = FALSE
             /\ \E alive \in isConnAlive(Head(pool.conns)) :
                  IF alive
                  THEN /\ hc' = [hc EXCEPT !.pc = "send", !.conn = Head(pool.conns)]
                       /\ UNCHANGED <<connClosed, dialed>>
                  ELSE /\ connClosed' = connClosed \cup {Head(pool.conns)}
                       /\ \E newConn \in createConnection :
                            /\ hc' = [hc EXCEPT !.pc = "send",
                                                !.conn = IF newConn = 0 THEN Head(pool.conns)
                                                         ELSE newConn]
                            /\ dialed' = IF newConn = 0 THEN dialed ELSE newConn
     /\ UNCHANGED <<held, closePc, getPc, getConn, getEntry, putPc, putConn, putEntry,
                    nonTcpVars>>
  \* p.conns <- conn: waits for room in the channel
  \/ /\ ~panicked
     /\ hc.pc = "send"
     /\ pool.connsClosed \/ Len(pool.conns) < pool.size
     /\ IF pool.connsClosed
        THEN /\ panicked' = TRUE
             /\ hc' = [hc EXCEPT !.pc = "panic"]
             /\ pool' = pool
        ELSE /\ panicked' = FALSE
             /\ hc' = [hc EXCEPT !.pc = "recv", !.i = hc.i + 1, !.conn = 0]
             /\ pool' = [pool EXCEPT !.conns = Append(pool.conns, hc.conn)]
     /\ UNCHANGED <<connClosed, dialed, held, closePc, getPc, getConn, getEntry, putPc,
                    putConn, putEntry, nonTcpVars>>

TcpNext ==
  \/ \E c \in 1..Closers : Close(c)
  \/ Get
  \/ Put
  \/ healthChecker

TcpSpec == Init /\ [][TcpNext]_vars

\* C34: once Close has been called on a TCP connection pool, Get returns an
\* error, Put closes the connection it is given and does not pool it, a second
\* Close returns nil, and no caller and no goroutine of the pool panics,
\* however Get, Put and the health checker interleave with Close
C34_ClosedPool ==
  /\ ~panicked
  /\ getEntry => getPc = "err"
  /\ (putEntry /\ putPc = "done") => putConn \in connClosed /\ putConn \notin Range(pool.conns)
  /\ \A c, d \in 1..Closers :
       (c # d /\ closePc[c] \in {"stop", "wait", "drain"}) => closePc[d] \in {"idle", "nil"}

nonApiVars == <<bucket, logFormat, poolKind, workerCount, hs, formatConfig, replies,
               formatConfigs, registry, detected, now, tcpVars, sinkVars, storeVars,
               state, dirty, senderVars, supPc, histVars>>

\* HTTPPool.WaitForIdle is called on the running pool
WaitForIdleCall ==
  /\ supPc = "run"
  /\ idlePc = "none"
  /\ idlePc' = "loop"
  /\ UNCHANGED <<stopClosed, lastSubmit, migratePc, scanBudget, poolVars, panicked,
                 nonApiVars>>

\* for { if len(hp.jobQueue) == 0 { return } }
WaitForIdleLoop ==
  /\ idlePc = "loop"
  /\ Len(jobQueue) = 0
  /\ idlePc' = "returned"
  /\ UNCHANGED <<stopClosed, lastSubmit, migratePc, scanBudget, poolVars, panicked,
                 nonApiVars>>

IdleNext ==
  \/ Next
  \/ WaitForIdleCall
  \/ WaitForIdleLoop

IdleSpec == Init /\ [][IdleNext]_vars

\* C36: when HTTPPool.WaitForIdle returns, the jobs submitted before the call
\* have been processed: the job queue is empty and no worker is still
\* processing a job
C36_IdleMeansProcessed ==
  [][(idlePc = "loop" /\ idlePc' = "returned") =>
       /\ jobQueue = << >>
       /\ \A w \in Workers : wpc[w] \in {"idle", "exited"}]_vars

\* C37: while the sender runs, every line for which SendLine returned waits
\* in exactly one place of the sender (the line buffer, the current batch or
\* one batch of the batch queue) or was part of exactly one sendBatch call,
\* never both and never twice; a line SendLine did not return for is in
\* neither; and the batches counted as sent or as failed, with those whose
\* POST is in flight, are the batches taken from the batch queue
C37_EachLineOnce ==
  LET Count(q, l) == Cardinality({k \in 1..Len(q) : q[k] = l})
      Waiting(l) == Count(lineChan, l) + Count(currentBatch, l)
                      + Cardinality({i \in 1..Len(batchChan) : l \in Range(batchChan[i])})
      InFlight == {s \in Senders : spc[s] = "post"}
  IN  /\ \A l \in DOMAIN sendCalls.lines :
           /\ \A i \in 1..Len(batchChan) : Count(batchChan[i], l) <= 1
           /\ Waiting(l) + sendCalls.lines[l] = (IF l \in forwarded THEN 1 ELSE 0)
           /\ sendCalls.lines[l] = 1 =>
                \/ Cardinality({s \in InFlight : l \in Range(sbatch[s])}) = 1
                \/ \A s \in Senders : l \notin Range(sbatch[s])
      /\ sentBatches + sendErrors + Cardinality(InFlight) = sendCalls.batches
      /\ \A s \in Senders : (s \in InFlight) <=> sbatch[s] # << >>

\* the sender workers have taken two batches, one was sent and one
\* failed, and a line still waits in the sender
C37_Witness ==
  /\ sentBatches >= 1
  /\ sendErrors >= 1
  /\ sendCalls.batches >= 2
  /\ \E l \in forwarded : sendCalls.lines[l] = 0

\* select { case jobQueue <- job: ...; case <-stopChan: ...; default: ... } in
\* Submit: the cases that can proceed, one of which is chosen. A send on a
\* closed channel can always proceed (and panics); default is taken only when
\* no other case can proceed.
SubmitReady(queue, closed, stopped) ==
  LET ready == (IF closed \/ QueueHasRoom(queue) THEN {"send"} ELSE {})
                 \cup (IF stopped THEN {"stop"} ELSE {})
  IN  IF ready = {} THEN {"default"} ELSE ready

\* HTTPPool.Submit, Pool.Submit, FilePool.Submit called at any time by a
\* goroutine other than the one that calls Stop
SubmitCall ==
  /\ ~panicked
  /\ scanBudget > 0
  /\ scanBudget' = scanBudget - 1
  /\ \E o \in Objs, chosen \in SubmitReady(jobQueue, jobClosed, stopClosed) :
       /\ jobQueue' = IF chosen = "send" /\ ~jobClosed THEN Append(jobQueue, o)
                      ELSE jobQueue
       /\ panicked' = (chosen = "send" /\ jobClosed)
       /\ lastSubmit' = [n |-> lastSubmit.n + 1, job |-> o, stopped |-> stopClosed,
                         result |-> IF chosen # "send" THEN "false"
                                    ELSE IF jobClosed THEN "panic" ELSE "true"]
  /\ UNCHANGED <<stopClosed, idlePc, migratePc, jobClosed, wpc, wjob, widx, errors, filesProcessed,
                 completed, nonApiVars>>

\* a pool of each kind with its workers, the scan loop, a concurrent caller
\* of Submit, and Stop up to the closing of the job queue
SubmitNext ==
  \/ PoolsNext
  \/ SubmitCall
  \/ Shutdown
  \/ HTTPPoolStopChan
  \/ HTTPPoolStopClose

SubmitSpec == PoolsInit /\ [][SubmitNext]_vars

\* C38: a Submit that runs after Stop has begun (stopChan is closed) returns
\* false, leaves the job queue as it is and does not panic, in each of the
\* three pools: Submit never sends on the closed job queue
C38_SubmitAfterStop ==
  [][(lastSubmit'.n # lastSubmit.n /\ lastSubmit'.stopped) =>
       /\ lastSubmit'.result = "false"
       /\ jobQueue' = jobQueue
       /\ ~panicked']_vars

\* ------------------------------------- Start and Stop of the state manager
\* Stop on a manager that was not started: close(m.stopCh), then <-m.doneCh,
\* which only periodicSave closes
StopUnstarted ==
  /\ ~crashed
  /\ ~panicked
  /\ stopPc = "none"
  /\ runPc = "none"
  /\ stopPc' = "closed"
  /\ atStop' = state
  /\ UNCHANGED <<pipelineVars, state, dirty, lastCall, backend, disk, savePc, saveData,
                 runPc, crashed, loadErr, restarts, saveCount, ioErrors, updates,
                 calls, callBytes, base, savedState, lastSaveErr, lastLoad>>

\* another call of Stop: close(m.stopCh) on the channel the first call closed
StopAgain ==
  /\ ~crashed
  /\ ~panicked
  /\ stopPc # "none"
  /\ panicked' = TRUE
  /\ UNCHANGED <<envVars, sinkVars, storeVars, scanBudget, state, dirty, poolVars,
                 senderVars, supPc, histVars>>

\* the state manager with callers that call Start and Stop in any order
LifecycleNext ==
  \/ Start
  \/ UpdateProgressCall
  \/ SaveBegin("periodic")
  \/ SaveBegin("stop")
  \/ SaveWriteFile
  \/ SaveRename
  \/ SaveSet
  \/ PeriodicExit
  \/ StopCall
  \/ StopUnstarted
  \/ StopAgain
  \/ StopWait

\* the goroutine of periodicSave and a Stop that can go on do go on; no
\* caller is bound to make a call
LifecycleSpec ==
  /\ StateInit
  /\ [][LifecycleNext]_vars
  /\ WF_vars(PeriodicExit)
  /\ WF_vars(StopWait)
  /\ WF_vars(SaveBegin("stop"))
  /\ WF_vars(SaveWriteFile \/ SaveRename \/ SaveSet)

\* C39: Stop on a state manager of either backend returns, and returns from
\* its final Save, whatever the sequence of Start and Stop calls: also when
\* Start was not called before it, and when it is called a second time; no
\* call panics
C39_StopAlwaysReturns ==
  /\ [](~panicked)
  /\ (stopPc = "closed") ~> (stopPc = "returned")
  /\ [][(stopPc # "returned" /\ stopPc' = "returned") => stopPc \in {"waited", "saving"}]_vars

\* ------------------------------------------ migration to the Redis backend
\* the file manager's GetStats and GetLastFile: what it loaded from its file
MigrateSources == {ZeroState, EarlierState}

\* RedisStateManager.MigrateFromFile, under m.mu: m.state = the state of the
\* file manager, m.dirty = true
MigrateSet ==
  /\ ~crashed
  /\ restarts = 0
  /\ backend = "redis"
  /\ migratePc = "none"
  /\ savePc = "none"
  /\ migratePc' = "save"
  /\ \E s \in MigrateSources : state' = s
  /\ dirty' = TRUE
  /\ UNCHANGED <<bucket, logFormat, poolKind, workerCount, hs, formatConfig, replies,
                 formatConfigs, registry, detected, now, tcpVars, stopClosed, idlePc,
                 lastSubmit, sinkVars, storeVars, scanBudget, poolVars, senderVars,
                 supPc, panicked, histVars>>

\* ... return m.Save(): Save from the lock to the marshalled data
MigrateSave ==
  /\ ~crashed
  /\ restarts = 0
  /\ migratePc = "save"
  /\ savePc = "none"
  /\ migratePc' = "done"
  /\ saveCount' = saveCount + 1
  /\ IF ~dirty
     THEN /\ savePc' = "none"
          /\ saveData' = << >>
          /\ lastSaveErr' = FALSE
     ELSE /\ savePc' = "set"
          /\ saveData' = Marshal(state)
          /\ UNCHANGED lastSaveErr
  /\ UNCHANGED <<bucket, logFormat, poolKind, workerCount, hs, formatConfig, replies,
                 formatConfigs, registry, detected, now, tcpVars, stopClosed, idlePc,
                 lastSubmit, sinkVars, scanBudget, poolVars, senderVars, supPc,
                 panicked, histVars, state, dirty, backend, disk, runPc, stopPc,
                 crashed, loadErr, restarts, ioErrors, updates, calls, callBytes, base,
                 atStop, savedState, lastLoad>>

\* the state manager with its callers and a migration from the file backend
MigrateNext ==
  \/ StateNext
  \/ MigrateSet
  \/ MigrateSave

MigrateSpec == StateInit /\ [][MigrateNext]_vars

\* C40: whenever the dirty flag of a state manager is false, the in-memory
\* timestamp, key and counters are those of the state last persisted or
\* loaded (the zero state when nothing was persisted), which is what the
\* state path holds: no completed update is lost with the flag clear
C40_CleanMeansPersisted ==
  (~crashed /\ ~dirty) => (state = savedState /\ state = Persisted)

\* after a migration was saved, an update was made and saved as well
C40_Witness ==
  /\ ~crashed
  /\ ~dirty
  /\ migratePc = "done"
  /\ calls > 0
  /\ state.files > EarlierState.files
  /\ state = Persisted

====
